---- MODULE Spec2Model ----
(***************************************************************************)
(* WordMatch: the hybrid encryption channel between the vocabulary client  *)
(* (client/src/utils/dataLoader.js, cryptoManager.js, api.js) and the      *)
(* Express server (server index: /api/publicKey, /api/secure/vocabulary).  *)
(*                                                                         *)
(* Cryptography is modelled symbolically: RSA and AES-GCM outputs are      *)
(* terms that can only be opened with the matching key, SHA-256 is an      *)
(* injective term constructor, and crypto.randomBytes / getRandomValues    *)
(* never repeat a value (a counter indexes the values drawn so far).       *)
(* Encodings that the code computes itself (hex, JSON text, parseInt, the  *)
(* ciphertext||tag concatenation) are computed, not assumed.               *)
(*                                                                         *)
(* Also modelled: the speech queue of client/src/utils/speechManager.js    *)
(* (SpeechQueue, SpeechConsumer and the browser's speech engine), the      *)
(* Sequencer class, and CryptoManager.init called on its own.              *)
(***************************************************************************)
EXTENDS Integers, Sequences, FiniteSets, TLC

VARIABLES
    env,               \* server: process.env.RSA_PRIVATE_KEY / RSA_PUBLIC_KEY
    rsaKey,            \* server: the NodeRSA key used to unwrap session keys
    publicKeyPEM,      \* server: the PEM served by GET /api/publicKey
    ivCounter,         \* server: number of crypto.randomBytes(16) draws so far
    served,            \* server: number of requests of arbitrary callers answered so far
    lastExchange,      \* server: the last request of an arbitrary caller and its answer
    envelopes,         \* server: nonce and ciphertext of every envelope sent, in order
    cryptoInitialized, \* dataLoader.js module flag
    publicKey,         \* CryptoManager closure variable
    isInitialized,     \* CryptoManager closure variable
    keyCounter,        \* client: number of getRandomValues draws so far
    faults,            \* transport: deliveries that were not the server's unchanged answer
    calls,             \* the calls of loadServerVocabularyData, by call id
    queuedItems,       \* SpeechQueue._items: the queued items, by number
    processing,        \* SpeechQueue._processing
    isProcessing,      \* SpeechConsumer.isProcessing
    isSpeaking,        \* SpeechConsumer.isSpeaking
    processingTimeout, \* SpeechConsumer._processingTimeout: the item whose timer it holds, 0 for null
    timers,            \* browser: items whose safety timeout is set, not yet fired or cleared
    pendingStarts,     \* browser: setTimeout(() => startConsuming(), 0) calls not yet run
    speaking,          \* speech engine: the item whose utterance is being spoken, 0 for none
    cancelled,         \* speech engine: cancelled utterances whose end/error is not yet reported
    ended,             \* items whose onEnd callback was invoked
    enqueued,          \* number of items SpeechQueue.enqueue accepted
    dropped,           \* items given up by a stopSpeech before their onEnd
    stops,             \* number of stopSpeech calls
    queue,             \* Sequencer.queue: the actions waiting, by number
    running,           \* Sequencer.running
    active,            \* actions called by a run() loop and not yet settled
    started,           \* the actions in the order they were called
    added,             \* number of actions given to add / addMany
    thrown,            \* actions whose promise was rejected
    clears,            \* number of Sequencer.clear calls
    lastInit,          \* the last direct call of CryptoManager.init and its outcome
    inits              \* number of direct calls of CryptoManager.init

serverVars == <<env, rsaKey, publicKeyPEM, ivCounter, served, lastExchange, envelopes>>
clientVars == <<cryptoInitialized, publicKey, isInitialized, keyCounter, faults, calls>>
speechVars == <<queuedItems, processing, isProcessing, isSpeaking, processingTimeout,
                timers, pendingStarts, speaking, cancelled, ended, enqueued,
                dropped, stops>>
sequencerVars == <<queue, running, active, started, added, thrown, clears>>
initVars == <<lastInit, inits>>
\* What the vocabulary channel never touches.
uiVars == <<speechVars, sequencerVars, initVars>>

vars == <<serverVars, clientVars, speechVars, sequencerVars, initVars>>

-----------------------------------------------------------------------------
(* Bounds of the model *)

\* number of calls of loadServerVocabularyData in one client session
MaxCalls == 2
\* number of requests arbitrary callers send to the server
MaxServerCalls == 2
\* number of fetches the transport fails or alters in one client session
MaxFaults == 1
\* number of items given to the speech queue
MaxItems == 3
\* number of stopSpeech calls
MaxStops == 1
\* number of actions given to the Sequencer
MaxActions == 4
\* number of Sequencer.clear calls
MaxClears == 1
\* number of direct calls of CryptoManager.init
MaxInits == 4

-----------------------------------------------------------------------------
(* Program constants *)

AES_KEY_BYTES == 32
IV_BYTES == 16
AUTH_TAG_BYTES == 16
RSA_BITS == 2048

-----------------------------------------------------------------------------
(* Values on the wire.  Every value is a record with a "kind" field, so a  *)
(* missing JSON field, a string and a base64 string are all comparable.    *)

Undefined == [kind |-> "undefined"]
IsUndefined(v) == v.kind = "undefined"

\* A JavaScript string given as its characters.
Str(chars) == [kind |-> "string", chars |-> chars]

\* Buffer.toString('base64') / window.atob: base64 text standing for bytes.
Base64(bytes) == [kind |-> "base64", bytes |-> bytes]

\* Plain bytes (an IV, a key).
Raw(octets) == [kind |-> "raw", octets |-> octets]

\* Bytes that are no slice of any AES-GCM output.
Garbage == [kind |-> "garbage"]

-----------------------------------------------------------------------------
(* Hexadecimal text: cryptoManager.js generateAesKey / hexToArrayBuffer,   *)
(* and Node's Buffer.from(text, 'hex') on the server.                      *)

HexDigits == <<"0", "1", "2", "3", "4", "5", "6", "7",
               "8", "9", "a", "b", "c", "d", "e", "f">>
UpperHexDigits == <<"0", "1", "2", "3", "4", "5", "6", "7",
                    "8", "9", "A", "B", "C", "D", "E", "F">>

\* The value of each hexadecimal digit, in either case.
HexTable ==
    [c \in {HexDigits[i] : i \in 1..16} \cup {UpperHexDigits[i] : i \in 1..16} |->
        IF \E i \in 1..16 : HexDigits[i] = c
        THEN (CHOOSE i \in 1..16 : HexDigits[i] = c) - 1
        ELSE (CHOOSE i \in 1..16 : UpperHexDigits[i] = c) - 1]

\* The value of a hexadecimal digit, -1 for any other character.
HexValue(c) == IF c \in DOMAIN HexTable THEN HexTable[c] ELSE -1

\* b.toString(16) for a byte b: one digit below 16, two digits otherwise.
NumberToString16(b) ==
    IF b < 16 THEN <<HexDigits[b + 1]>>
    ELSE <<HexDigits[(b \div 16) + 1], HexDigits[(b % 16) + 1]>>

\* s.padStart(2, '0')
PadStart2(s) == IF Len(s) < 2 THEN <<"0">> \o s ELSE s

\* Array.from(array).map(b => b.toString(16).padStart(2, '0')).join('')
\* (every element of a Uint8Array gives exactly two characters).
BytesToHex(bytes) ==
    [i \in 1..(2 * Len(bytes)) |->
        PadStart2(NumberToString16(bytes[(i + 1) \div 2]))[((i - 1) % 2) + 1]]

\* Buffer.from(text, 'hex'): decodes digit pairs and stops at the first pair
\* that is not two hexadecimal digits; a trailing single character is dropped.
BufferFromHex(chars) ==
    LET pairs == 1..(Len(chars) \div 2)
        bad == {i \in pairs : HexValue(chars[2 * i - 1]) < 0 \/ HexValue(chars[2 * i]) < 0}
        decoded == IF bad = {} THEN Len(chars) \div 2
                   ELSE (CHOOSE i \in bad : \A j \in bad : i <= j) - 1
    IN  [i \in 1..decoded |-> 16 * HexValue(chars[2 * i - 1]) + HexValue(chars[2 * i])]

\* parseInt(hexString.substr(i, 2), 16) stored into a Uint8Array: NaN is stored as 0.
ParseHexPair(c1, c2) ==
    IF HexValue(c1) < 0 THEN 0
    ELSE IF HexValue(c2) < 0 THEN HexValue(c1)
    ELSE 16 * HexValue(c1) + HexValue(c2)

\* for (let i = 0; i < hexString.length; i += 2) over an even-length string.
HexPairs(chars) ==
    [i \in 1..(Len(chars) \div 2) |-> ParseHexPair(chars[2 * i - 1], chars[2 * i])]

\* hexToArrayBuffer: new Uint8Array(length / 2) throws for an odd length.
hexToArrayBuffer(hexString) ==
    IF Len(hexString) % 2 # 0 THEN [ok |-> FALSE, bytes |-> <<>>]
    ELSE [ok |-> TRUE, bytes |-> HexPairs(hexString)]

-----------------------------------------------------------------------------
(* JSON text of a vocabulary array, as a sequence of tokens: "[", "]", ",",*)
(* " " (white space) and one token per vocabulary entry.                   *)

JsonPunctuation == {"[", "]", ",", " "}

RECURSIVE JoinItems(_)
JoinItems(items) ==
    IF items = <<>> THEN <<>>
    ELSE IF Len(items) = 1 THEN <<items[1]>>
    ELSE <<items[1], ",">> \o JoinItems(Tail(items))

\* JSON.stringify(array): no white space.
JsonStringify(items) == <<"[">> \o JoinItems(items) \o <<"]">>

RECURSIVE StripSpace(_)
StripSpace(tokens) ==
    IF tokens = <<>> THEN <<>>
    ELSE IF Head(tokens) = " " THEN StripSpace(Tail(tokens))
    ELSE <<Head(tokens)>> \o StripSpace(Tail(tokens))

\* The entries of  item ("," item)*  or failure.
RECURSIVE ParseItems(_)
ParseItems(tokens) ==
    IF tokens = <<>> \/ Head(tokens) \in JsonPunctuation
    THEN [ok |-> FALSE, value |-> <<>>]
    ELSE IF Len(tokens) = 1 THEN [ok |-> TRUE, value |-> <<tokens[1]>>]
    ELSE IF tokens[2] # "," THEN [ok |-> FALSE, value |-> <<>>]
    ELSE LET rest == ParseItems(SubSeq(tokens, 3, Len(tokens)))
         IN  IF rest.ok THEN [ok |-> TRUE, value |-> <<tokens[1]>> \o rest.value]
             ELSE [ok |-> FALSE, value |-> <<>>]

\* JSON.parse(text) for array text; ok = FALSE stands for a SyntaxError.
JsonParse(text) ==
    LET t == StripSpace(text)
    IN  IF Len(t) < 2 \/ t[1] # "[" \/ t[Len(t)] # "]"
        THEN [ok |-> FALSE, value |-> <<>>]
        ELSE IF Len(t) = 2 THEN [ok |-> TRUE, value |-> <<>>]
        ELSE ParseItems(SubSeq(t, 2, Len(t) - 1))

-----------------------------------------------------------------------------
(* parseInt(text, 10) of a URL parameter given as its characters.          *)

DecimalDigits == <<"0", "1", "2", "3", "4", "5", "6", "7", "8", "9">>
IsDigit(c) == \E i \in 1..10 : DecimalDigits[i] = c
DigitValue(c) == (CHOOSE i \in 1..10 : DecimalDigits[i] = c) - 1

\* The value of the longest prefix of digits, read after the digits in acc.
RECURSIVE DigitsPrefix(_, _)
DigitsPrefix(chars, acc) ==
    IF chars = <<>> \/ ~IsDigit(Head(chars)) THEN acc
    ELSE DigitsPrefix(Tail(chars), 10 * acc + DigitValue(Head(chars)))

NaN == [nan |-> TRUE, value |-> 0]
Number(n) == [nan |-> FALSE, value |-> n]

RECURSIVE SkipLeadingSpace(_)
SkipLeadingSpace(chars) ==
    IF chars # <<>> /\ Head(chars) = " " THEN SkipLeadingSpace(Tail(chars)) ELSE chars

ParseInt10(chars) ==
    LET t == SkipLeadingSpace(chars)
        signed == t # <<>> /\ Head(t) \in {"-", "+"}
        digits == IF signed THEN Tail(t) ELSE t
    IN  IF digits = <<>> \/ ~IsDigit(Head(digits)) THEN NaN
        ELSE IF signed /\ Head(t) = "-" THEN Number(0 - DigitsPrefix(digits, 0))
        ELSE Number(DigitsPrefix(digits, 0))

\* `${count}` for a small non-negative count.
NumberToChars(n) ==
    IF n < 10 THEN <<DecimalDigits[n + 1]>>
    ELSE <<DecimalDigits[(n \div 10) + 1], DecimalDigits[(n % 10) + 1]>>

-----------------------------------------------------------------------------
(* Symbolic cryptography.                                                  *)

\* A PEM-encoded half of an RSA keypair; pair names the keypair.
PublicPem(pair) == [kind |-> "pem", half |-> "public", pair |-> pair, bits |-> RSA_BITS]
PrivatePem(pair) == [kind |-> "pem", half |-> "private", pair |-> pair, bits |-> RSA_BITS]

\* The keypair generate-keys.js wrote to .env, the keypair the server generates
\* when it starts without a configured private key, and a keypair of somebody else.
DotEnvPair == "dotenv"
GeneratedPair == "generated"
ForeignPair == "foreign"

\* new JSEncrypt(); setPublicKey(pem); encrypt(text): PKCS#1 v1.5 under the
\* public key, as a base64 string; false when the key cannot be used.
JSEncryptEncrypt(pem, text) ==
    IF pem.kind = "pem"
    THEN [kind |-> "rsa", pair |-> pem.pair, scheme |-> "pkcs1", text |-> text]
    ELSE [kind |-> "false"]

\* rsaKey.decrypt(value, 'utf8'): the text, when value was encrypted under the
\* public half of this key with the key's padding scheme; throws otherwise.
NodeRsaDecrypt(key, value) ==
    IF value.kind = "rsa" /\ value.pair = key.pair /\ value.scheme = key.encryptionScheme
    THEN [ok |-> TRUE, text |-> value.text]
    ELSE [ok |-> FALSE, text |-> <<>>]

\* An exportKey called without a format, which exports the private key.
ExportKeyDefaultFormat(key) == PrivatePem(key.pair)

\* rsaKey.exportKey('public')
ExportPublicKey(key) == PublicPem(key.pair)

\* The UTF-8 bytes of a string, and TextDecoder.decode of them.
Utf8(chars) == [kind |-> "utf8", chars |-> chars]
ByteLength(chars) == Len(chars)

\* The SHA-256 digest of bytes.
Sha256(bytes) == [kind |-> "sha256", of |-> bytes]

\* The AES-256-GCM output for (key, iv, plaintext) is the ciphertext bytes
\* 1..n followed by the tag bytes n+1..n+16, n the plaintext length.  A byte
\* string taken from it is the slice from..to; flipped says a bit of it was changed.
GcmSlice(key, iv, text, from, to) ==
    [kind |-> "gcm", key |-> key, iv |-> iv, text |-> text,
     from |-> from, to |-> to, flipped |-> FALSE]

\* A nonce that is the same for every envelope.
RandomIvFixed(n) == [i \in 1..IV_BYTES |-> (7 * i) % 256]

\* The n-th value drawn by crypto.randomBytes(16) on the server.
RandomIv(n) == [i \in 1..IV_BYTES |-> (29 * n + 7 * i) % 256]

\* The n-th value drawn by window.crypto.getRandomValues(new Uint8Array(32)).
RandomKeyBytes(n) == [i \in 1..AES_KEY_BYTES |-> (n * (17 * i + 1)) % 256]

-----------------------------------------------------------------------------
(* The server (Express app).                                               *)

\* The vocabulary_json_array directory: the text of each file.
VolumeOneUnitOneText == <<"[", "apple", ",", " ", "book", "]">>
VolumeOneWelcomeText == <<"[", "hello", "]">>
VolumeOneUnitTwoText == <<"[", "apple", ",">>

\* `Volume${volume}_Welcome_Unit.json` or `Volume${volume}_Unit_${unit}.json`
FileName(volume, unit) ==
    IF unit = "welcome"
    THEN <<"Volume", volume, "_Welcome_Unit.json">>
    ELSE <<"Volume", volume, "_Unit_", unit, ".json">>

\* fs.readFile(filePath, 'utf8'): the text, or the error code it rejects with.
ReadFile(fileName) ==
    IF fileName = <<"Volume", "1", "_Unit_", "1", ".json">>
    THEN [code |-> "", data |-> VolumeOneUnitOneText]
    ELSE IF fileName = <<"Volume", "1", "_Welcome_Unit.json">>
    THEN [code |-> "", data |-> VolumeOneWelcomeText]
    ELSE IF fileName = <<"Volume", "1", "_Unit_", "2", ".json">>
    THEN [code |-> "", data |-> VolumeOneUnitTwoText]
    ELSE IF fileName = <<"Volume", "1", "_Unit_", "3", ".json">>
    THEN [code |-> "EISDIR", data |-> <<>>]
    ELSE [code |-> "ENOENT", data |-> <<>>]

\* A JSON response body; the fields a response does not set are undefined.
EmptyBody ==
    [error |-> Undefined, publicKey |-> Undefined, encryptedData |-> Undefined,
     iv |-> Undefined, authTag |-> Undefined, hash |-> Undefined]

\* res.status(status).json({ error: message })
ErrorResponse(status, message) ==
    [status |-> status, body |-> [EmptyBody EXCEPT !.error = Str(message)]]

\* Module initialisation: rsaKey from process.env.RSA_PRIVATE_KEY, or generated.
InitRsaKey(e) ==
    IF ~IsUndefined(e.RSA_PRIVATE_KEY)
    THEN [pair |-> e.RSA_PRIVATE_KEY.pair, bits |-> e.RSA_PRIVATE_KEY.bits,
          encryptionScheme |-> "pkcs1", generated |-> FALSE]
    ELSE [pair |-> GeneratedPair, bits |-> RSA_BITS,
          encryptionScheme |-> "pkcs1", generated |-> TRUE]

\* const publicKeyPEM = process.env.RSA_PUBLIC_KEY || rsaKey.exportKey('public')
InitPublicKeyPEM(e, key) ==
    IF ~IsUndefined(e.RSA_PUBLIC_KEY) THEN e.RSA_PUBLIC_KEY ELSE ExportPublicKey(key)

\* app.get('/api/publicKey'): res.json({ publicKey: publicKeyPEM })
PublicKeyHandler ==
    [status |-> 200, body |-> [EmptyBody EXCEPT !.publicKey = publicKeyPEM]]

\* The encryption of vocabularyString under the unwrapped key and the answer
\* with the envelope; createCipheriv throws unless the key is 32 bytes, and the
\* handler's outer catch answers 500.
SealVocabulary(vocabularyString, aesKey, iv) ==
    LET keyBytes == BufferFromHex(aesKey)
        n == ByteLength(vocabularyString)
    IN  IF Len(keyBytes) # AES_KEY_BYTES
        THEN ErrorResponse(500, <<"Failed to get vocabulary data">>)
        ELSE [status |-> 200,
              body |-> [EmptyBody EXCEPT
                  !.encryptedData =
                      Base64(GcmSlice(keyBytes, iv, vocabularyString, 1, n)),
                  !.iv = Base64(Raw(iv)),
                  !.authTag =
                      Base64(GcmSlice(keyBytes, iv, vocabularyString,
                                      n + 1, n + AUTH_TAG_BYTES)),
                  !.hash = Base64(Sha256(Utf8(vocabularyString)))]]

\* !encryptedAesKey
MissingKey(encryptedAesKey) ==
    IsUndefined(encryptedAesKey)
    \/ (encryptedAesKey.kind = "string" /\ encryptedAesKey.chars = <<>>)

\* A handler without the inner try/catch around rsaKey.decrypt: a key that
\* cannot be unwrapped reaches the outer catch.
VocabularyHandlerUnwrapUncaught(req, iv) ==
    IF MissingKey(req.encryptedAesKey)
    THEN ErrorResponse(400, <<"Missing encrypted AES key">>)
    ELSE LET unwrapped == NodeRsaDecrypt(rsaKey, req.encryptedAesKey)
             file == ReadFile(FileName(req.volume, req.unit))
             vocabulary == JsonParse(file.data)
         IN  IF ~unwrapped.ok
             THEN ErrorResponse(500, <<"Failed to get vocabulary data">>)
             ELSE IF file.code = "ENOENT"
             THEN ErrorResponse(404, <<"Volume ", req.volume, " Unit ", req.unit,
                                       " not found">>)
             ELSE IF file.code # "" \/ ~vocabulary.ok
             THEN ErrorResponse(500, <<"Failed to get vocabulary data">>)
             ELSE SealVocabulary(JsonStringify(vocabulary.value), unwrapped.text, iv)

\* app.post('/api/secure/vocabulary/:volume/:unit'); iv is the value
\* crypto.randomBytes(16) returns if the handler gets that far.
VocabularyHandler(req, iv) ==
    IF MissingKey(req.encryptedAesKey)
    THEN ErrorResponse(400, <<"Missing encrypted AES key">>)
    ELSE LET unwrapped == NodeRsaDecrypt(rsaKey, req.encryptedAesKey)
             file == ReadFile(FileName(req.volume, req.unit))
             vocabulary == JsonParse(file.data)
         IN  IF ~unwrapped.ok
             THEN ErrorResponse(400, <<"Invalid encrypted AES key">>)
             ELSE IF file.code = "ENOENT"
             THEN ErrorResponse(404, <<"Volume ", req.volume, " Unit ", req.unit,
                                       " not found">>)
             ELSE IF file.code # "" \/ ~vocabulary.ok
             THEN ErrorResponse(500, <<"Failed to get vocabulary data">>)
             ELSE SealVocabulary(JsonStringify(vocabulary.value), unwrapped.text, iv)

\* shuffledVocabulary.slice(0, Math.min(wordCount, shuffledVocabulary.length))
SliceFirst(items, wordCount) ==
    SubSeq(items, 1, IF wordCount < Len(items) THEN wordCount ELSE Len(items))

\* The orders shuffleArray can return: every permutation of the array.
Shuffles(items) ==
    {[i \in 1..Len(items) |-> items[p[i]]] :
        p \in {q \in [1..Len(items) -> 1..Len(items)] :
                  \A i, j \in 1..Len(items) : i # j => q[i] # q[j]}}

\* A count handler that looks at the key before it validates the count.
VocabularyCountHandlerKeyFirst(req, iv, shuffled) ==
    LET wordCount == ParseInt10(req.count)
    IN  IF MissingKey(req.encryptedAesKey)
        THEN ErrorResponse(400, <<"Missing encrypted AES key">>)
        ELSE IF ~NodeRsaDecrypt(rsaKey, req.encryptedAesKey).ok
        THEN ErrorResponse(400, <<"Invalid encrypted AES key">>)
        ELSE IF wordCount.nan \/ wordCount.value < 1
        THEN ErrorResponse(400, <<"Invalid count parameter">>)
        ELSE LET unwrapped == NodeRsaDecrypt(rsaKey, req.encryptedAesKey)
                 file == ReadFile(FileName(req.volume, req.unit))
                 allVocabulary == JsonParse(file.data)
             IN  IF file.code = "ENOENT"
                 THEN ErrorResponse(404, <<"Volume ", req.volume, " Unit ", req.unit,
                                           " not found">>)
                 ELSE IF file.code # "" \/ ~allVocabulary.ok
                 THEN ErrorResponse(500, <<"Failed to get vocabulary data">>)
                 ELSE SealVocabulary(
                          JsonStringify(SliceFirst(shuffled, wordCount.value)),
                          unwrapped.text, iv)

\* app.post('/api/secure/vocabulary/:volume/:unit/count/:count'); shuffled is
\* the array shuffleArray(allVocabulary) returns if the handler gets that far.
VocabularyCountHandler(req, iv, shuffled) ==
    LET wordCount == ParseInt10(req.count)
    IN  IF wordCount.nan \/ wordCount.value < 1
        THEN ErrorResponse(400, <<"Invalid count parameter">>)
        ELSE IF MissingKey(req.encryptedAesKey)
        THEN ErrorResponse(400, <<"Missing encrypted AES key">>)
        ELSE LET unwrapped == NodeRsaDecrypt(rsaKey, req.encryptedAesKey)
                 file == ReadFile(FileName(req.volume, req.unit))
                 allVocabulary == JsonParse(file.data)
             IN  IF ~unwrapped.ok
                 THEN ErrorResponse(400, <<"Invalid encrypted AES key">>)
                 ELSE IF file.code = "ENOENT"
                 THEN ErrorResponse(404, <<"Volume ", req.volume, " Unit ", req.unit,
                                           " not found">>)
                 ELSE IF file.code # "" \/ ~allVocabulary.ok
                 THEN ErrorResponse(500, <<"Failed to get vocabulary data">>)
                 ELSE SealVocabulary(
                          JsonStringify(SliceFirst(shuffled, wordCount.value)),
                          unwrapped.text, iv)

-----------------------------------------------------------------------------
(* The client: cryptoManager.js, api.js.                                   *)

\* A generateAesKey that keeps returning the key it generated first.
generateAesKeyReused(n) == BytesToHex(RandomKeyBytes(0))

\* generateAesKey(), n the number of keys drawn before.
generateAesKey(n) == BytesToHex(RandomKeyBytes(n))

\* encryptAesKey(aesKey) with the closure's publicKey pk and isInitialized flag.
encryptAesKey(aesKey, pk, initialized) ==
    IF ~initialized \/ IsUndefined(pk)
    THEN [ok |-> FALSE, value |-> Undefined]
    ELSE LET encrypted == JSEncryptEncrypt(pk, aesKey)
         IN  IF encrypted.kind = "false" THEN [ok |-> FALSE, value |-> Undefined]
             ELSE [ok |-> TRUE, value |-> encrypted]

\* base64ToArrayBuffer(base64): window.atob throws for anything that is not
\* base64 text (a missing field is read as the text "undefined").
base64ToArrayBuffer(base64) ==
    IF base64.kind = "base64" THEN [ok |-> TRUE, bytes |-> base64.bytes]
    ELSE [ok |-> FALSE, bytes |-> Garbage]

\* A concatArrayBuffers that puts buffer2 first.
concatArrayBuffersTagFirst(buffer1, buffer2) ==
    IF /\ buffer1.kind = "gcm" /\ buffer2.kind = "gcm"
       /\ buffer1.key = buffer2.key /\ buffer1.iv = buffer2.iv
       /\ buffer1.text = buffer2.text
       /\ buffer1.from = buffer2.to + 1
    THEN [buffer2 EXCEPT !.to = buffer1.to,
                         !.flipped = buffer1.flipped \/ buffer2.flipped]
    ELSE Garbage

\* concatArrayBuffers(buffer1, buffer2): the bytes of buffer1 followed by
\* those of buffer2.  Two adjoining slices of one AES-GCM output give the
\* slice covering both.
concatArrayBuffers(buffer1, buffer2) ==
    IF /\ buffer1.kind = "gcm" /\ buffer2.kind = "gcm"
       /\ buffer1.key = buffer2.key /\ buffer1.iv = buffer2.iv
       /\ buffer1.text = buffer2.text
       /\ buffer2.from = buffer1.to + 1
    THEN [buffer1 EXCEPT !.to = buffer2.to,
                         !.flipped = buffer1.flipped \/ buffer2.flipped]
    ELSE Garbage

\* importAesKey(hexKey): crypto.subtle.importKey('raw', ...) accepts AES keys
\* of 16, 24 or 32 bytes.
importAesKey(hexKey) ==
    LET keyBuffer == hexToArrayBuffer(hexKey)
    IN  IF keyBuffer.ok /\ Len(keyBuffer.bytes) \in {16, 24, AES_KEY_BYTES}
        THEN [ok |-> TRUE, bytes |-> keyBuffer.bytes]
        ELSE [ok |-> FALSE, bytes |-> <<>>]

\* A decryption that does not depend on the key it is given.
SubtleDecryptAnyKey(keyBytes, ivBuffer, data) ==
    IF /\ data.kind = "gcm"
       /\ ~data.flipped
       /\ data.from = 1
       /\ data.to = ByteLength(data.text) + AUTH_TAG_BYTES
       /\ ivBuffer.kind = "raw"
       /\ ivBuffer.octets = data.iv
    THEN [ok |-> TRUE, text |-> data.text]
    ELSE [ok |-> FALSE, text |-> <<>>]

\* A decryption that does not depend on the iv it is given.
SubtleDecryptAnyIv(keyBytes, ivBuffer, data) ==
    IF /\ data.kind = "gcm"
       /\ ~data.flipped
       /\ data.from = 1
       /\ data.to = ByteLength(data.text) + AUTH_TAG_BYTES
       /\ data.key = keyBytes
    THEN [ok |-> TRUE, text |-> data.text]
    ELSE [ok |-> FALSE, text |-> <<>>]

\* crypto.subtle.decrypt({name: 'AES-GCM', iv, tagLength: 128}, key, data): the
\* last 16 bytes of data are the tag; succeeds only for the complete, unchanged
\* output of an encryption under this key and iv.
SubtleDecrypt(keyBytes, ivBuffer, data) ==
    IF /\ data.kind = "gcm"
       /\ ~data.flipped
       /\ data.from = 1
       /\ data.to = ByteLength(data.text) + AUTH_TAG_BYTES
       /\ data.key = keyBytes
       /\ ivBuffer.kind = "raw"
       /\ ivBuffer.octets = data.iv
    THEN [ok |-> TRUE, text |-> data.text]
    ELSE [ok |-> FALSE, text |-> <<>>]

\* decryptData(encryptedData, iv, authTag, aesKey): the decrypted text, or a throw.
decryptData(encryptedData, iv, authTag, aesKey) ==
    LET key == importAesKey(aesKey)
        ivBuffer == base64ToArrayBuffer(iv)
        encryptedBuffer == base64ToArrayBuffer(encryptedData)
        authTagBuffer == base64ToArrayBuffer(authTag)
    IN  IF ~key.ok \/ ~ivBuffer.ok \/ ~encryptedBuffer.ok \/ ~authTagBuffer.ok
        THEN [ok |-> FALSE, text |-> <<>>]
        ELSE SubtleDecrypt(key.bytes, ivBuffer.bytes,
                           concatArrayBuffers(encryptedBuffer.bytes,
                                              authTagBuffer.bytes))

\* A sha256 that writes the digest in hexadecimal (CryptoJS's default toString).
sha256Hex(data) == [kind |-> "hex", bytes |-> Sha256(Utf8(data))]

\* sha256(data): CryptoJS.enc.Base64.stringify(CryptoJS.SHA256(data))
sha256(data) == Base64(Sha256(Utf8(data)))

\* verifyDataIntegrity(decryptedData, expectedHash)
verifyDataIntegrity(decryptedData, expectedHash) ==
    sha256(decryptedData) = expectedHash

\* What the transport gives a fetch: a response of the server, or a rejection.
NetworkError == [status |-> 0, body |-> EmptyBody]
ResponseOk(response) == response.status >= 200 /\ response.status <= 299

\* A getPublicKey that falls back to a built-in key when the fetch fails.
getPublicKeyWithFallback(response) ==
    IF response.status = 0 \/ ~ResponseOk(response) \/ IsUndefined(response.body.publicKey)
    THEN PublicPem(DotEnvPair)
    ELSE response.body.publicKey

\* API.getPublicKey() on what fetch gave: data.publicKey, null on any failure.
getPublicKey(response) ==
    IF response.status = 0 \/ ~ResponseOk(response) THEN Undefined
    ELSE response.body.publicKey

-----------------------------------------------------------------------------
(* The client: dataLoader.js loadServerVocabularyData.                     *)

Null == [kind |-> "null"]
Pending == [kind |-> "pending"]
Data(value) == [kind |-> "data", value |-> value]

\* let serverUnit = unit; if (unit === 'Welcome_Unit') serverUnit = 'welcome'
ServerUnit(unit) == IF unit = "Welcome_Unit" THEN "welcome" ELSE unit

\* A loadServerVocabularyData that does not check isValid.
LoadResultUnverified(response, aesKey) ==
    IF response.status = 0 \/ ~ResponseOk(response) THEN Null
    ELSE LET decryptedData == decryptData(response.body.encryptedData,
                                          response.body.iv,
                                          response.body.authTag, aesKey)
         IN  IF ~decryptedData.ok THEN Null
             ELSE LET parsed == JsonParse(decryptedData.text)
                  IN  IF parsed.ok THEN Data(parsed.value) ELSE Null

\* The rest of loadServerVocabularyData once fetch settled with response:
\* the value the call returns.
LoadResult(response, aesKey) ==
    IF response.status = 0 \/ ~ResponseOk(response) THEN Null
    ELSE LET decryptedData == decryptData(response.body.encryptedData,
                                          response.body.iv,
                                          response.body.authTag, aesKey)
         IN  IF ~decryptedData.ok THEN Null
             ELSE IF ~verifyDataIntegrity(decryptedData.text, response.body.hash)
             THEN Null
             ELSE LET parsed == JsonParse(decryptedData.text)
                  IN  IF parsed.ok THEN Data(parsed.value) ELSE Null

-----------------------------------------------------------------------------
(* Requests, responses and the transport.                                  *)

NoResponse == [status |-> -1, body |-> EmptyBody]

\* A POST to one of the two secure endpoints; count is the :count parameter
\* as text (empty for the endpoint without it).
SecureRequest(endpoint, volume, unit, count, encryptedAesKey) ==
    [endpoint |-> endpoint, volume |-> volume, unit |-> unit, count |-> count,
     encryptedAesKey |-> encryptedAesKey]

NoRequest == SecureRequest("none", "", "", <<>>, Undefined)
PublicKeyRequest == SecureRequest("publicKey", "", "", <<>>, Undefined)

\* The request loadServerVocabularyData sends: the count endpoint when count
\* is truthy (part_005), the plain endpoint otherwise (dataLoader.js).
ClientRequest(volume, unit, count, encryptedAesKey) ==
    IF count # 0
    THEN SecureRequest("count", volume, ServerUnit(unit), NumberToChars(count),
                       encryptedAesKey)
    ELSE SecureRequest("unit", volume, ServerUnit(unit), <<>>, encryptedAesKey)

\* Whether the handler of req gets as far as crypto.randomBytes(16).
ReachesEncryption(req) ==
    /\ req.endpoint = "count" =>
           (~ParseInt10(req.count).nan /\ ParseInt10(req.count).value >= 1)
    /\ ~MissingKey(req.encryptedAesKey)
    /\ NodeRsaDecrypt(rsaKey, req.encryptedAesKey).ok
    /\ ReadFile(FileName(req.volume, req.unit)).code = ""
    /\ JsonParse(ReadFile(FileName(req.volume, req.unit)).data).ok

\* The arrays shuffleArray may hand the count handler for req.
ShuffledChoices(req) ==
    Shuffles(JsonParse(ReadFile(FileName(req.volume, req.unit)).data).value)

\* The answer of the server to req; shuffled is used by the count endpoint only.
Handle(req, shuffled) ==
    IF req.endpoint = "count"
    THEN VocabularyCountHandler(req, RandomIv(ivCounter), shuffled)
    ELSE VocabularyHandler(req, RandomIv(ivCounter))

\* The envelopes sent so far, after the server answered with response.
Sent(log, response) ==
    IF response.status = 200
    THEN Append(log, [iv |-> response.body.iv,
                      encryptedData |-> response.body.encryptedData])
    ELSE log

\* Changes a transport fault or an intermediary can make to a 200 envelope.
TamperKinds ==
    {"flipCiphertext", "flipAuthTag", "flipIv", "otherHash", "moveBoundary",
     "dropHash"}

FlipBit(bytes) ==
    IF bytes.kind = "gcm" THEN [bytes EXCEPT !.flipped = TRUE]
    ELSE IF bytes.kind = "raw"
    THEN Raw([bytes.octets EXCEPT ![1] = IF @ % 2 = 0 THEN @ + 1 ELSE @ - 1])
    ELSE Garbage

Tamper(response, how) ==
    LET b == response.body
    IN  [response EXCEPT !.body =
          CASE how = "flipCiphertext" ->
                 [b EXCEPT !.encryptedData = Base64(FlipBit(b.encryptedData.bytes))]
            [] how = "flipAuthTag" ->
                 [b EXCEPT !.authTag = Base64(FlipBit(b.authTag.bytes))]
            [] how = "flipIv" ->
                 [b EXCEPT !.iv = Base64(FlipBit(b.iv.bytes))]
            [] how = "otherHash" ->
                 [b EXCEPT !.hash = Base64(Sha256(Utf8(<<"[", "]">>)))]
            [] how = "moveBoundary" ->
                 \* the last ciphertext byte is moved to the front of the tag
                 [b EXCEPT !.encryptedData =
                               Base64([b.encryptedData.bytes EXCEPT !.to = @ - 1]),
                           !.authTag =
                               Base64([b.authTag.bytes EXCEPT !.from = @ - 1])]
            [] how = "dropHash" -> [b EXCEPT !.hash = Undefined]]

\* How the transport treats the answer to a POST: delivered as sent, lost
\* (fetch rejects), or changed on the way.
DeliveryKinds == {"intact", "networkError"} \cup TamperKinds

\* What fetch gives the caller whose request the server answered with response.
Deliver(response, how) ==
    IF how = "intact" THEN response
    ELSE IF how = "networkError" THEN NetworkError
    ELSE Tamper(response, how)

\* The transport did not deliver the answer the server gave.
Faulty(delivered, response) == delivered # response

\* What fetch can give API.getPublicKey: the server's answer, a rejection, a
\* non-OK answer of something in between, or a 200 without a publicKey field.
PublicKeyDeliveries ==
    {PublicKeyHandler, NetworkError, ErrorResponse(503, <<"Service Unavailable">>),
     [status |-> 200, body |-> EmptyBody]}

-----------------------------------------------------------------------------
(* State machine.                                                          *)

CallIds == 1..MaxCalls

\* The arguments loadServerVocabularyData is called with.
ClientVolumes == {"1"}
ClientUnits == {"Welcome_Unit", "9"}
ClientCounts == {0}

IdleCall ==
    [pc |-> "idle", volume |-> "", unit |-> "", count |-> 0,
     startedAfterInit |-> FALSE, keyFetches |-> 0, posts |-> 0,
     keyFetchFailed |-> FALSE,
     aesKey |-> <<>>, encryptedAesKey |-> Undefined, wrappedWith |-> Undefined,
     response |-> NoResponse, delivered |-> NoResponse, result |-> Pending]

\* lastInit before CryptoManager.init was called directly.
NoInit ==
    [serverPublicKey |-> Undefined, responseStatus |-> -1,
     returned |-> FALSE, fetches |-> 0,
     publicKeyBefore |-> Undefined, isInitializedBefore |-> FALSE]

EnvChoices ==
    [RSA_PRIVATE_KEY : {Undefined, PrivatePem(DotEnvPair)},
     RSA_PUBLIC_KEY : {Undefined, PublicPem(DotEnvPair)}]

Init ==
    /\ env \in EnvChoices
    /\ rsaKey = InitRsaKey(env)
    /\ publicKeyPEM = InitPublicKeyPEM(env, rsaKey)
    /\ ivCounter = 0
    /\ served = 0
    /\ lastExchange = [req |-> NoRequest, resp |-> NoResponse]
    /\ envelopes = <<>>
    /\ cryptoInitialized = FALSE
    /\ publicKey = Undefined
    /\ isInitialized = FALSE
    /\ keyCounter = 0
    /\ faults = 0
    /\ calls = [c \in CallIds |-> IdleCall]
    /\ queuedItems = <<>>
    /\ processing = FALSE
    /\ isProcessing = FALSE
    /\ isSpeaking = FALSE
    /\ processingTimeout = 0
    /\ timers = {}
    /\ pendingStarts = 0
    /\ speaking = 0
    /\ cancelled = {}
    /\ ended = {}
    /\ enqueued = 0
    /\ dropped = {}
    /\ stops = 0
    /\ queue = <<>>
    /\ running = FALSE
    /\ active = {}
    /\ started = <<>>
    /\ added = 0
    /\ thrown = {}
    /\ clears = 0
    /\ lastInit = NoInit
    /\ inits = 0

\* Lines 74-87 of loadServerVocabularyData for call c, whose record is call:
\* generate the session key, wrap it and send the POST; a throw of
\* encryptAesKey ends the call with null.
SendSecureRequest(c, call, pk, initialized) ==
    LET aesKey == generateAesKey(keyCounter)
        wrapped == encryptAesKey(aesKey, pk, initialized)
    IN  /\ keyCounter' = keyCounter + 1
        /\ calls' = [calls EXCEPT ![c] =
               IF wrapped.ok
               THEN [call EXCEPT !.pc = "fetch", !.aesKey = aesKey,
                                 !.encryptedAesKey = wrapped.value,
                                 !.wrappedWith = pk,
                                 !.posts = @ + 1]
               ELSE [call EXCEPT !.pc = "done", !.aesKey = aesKey,
                                 !.result = Null]]

\* Some call has fetched the public key and resumed after CryptoManager.init.
SomeCallInitialized ==
    \E c \in CallIds : calls[c].keyFetches > 0 /\ calls[c].pc \in {"fetch", "done"}
                       /\ ~calls[c].keyFetchFailed

\* loadServerVocabularyData(volume, unit, count) is called: up to the first await.
Start(c, volume, unit, count) ==
    /\ calls[c].pc = "idle"
    /\ c > 1 => calls[c - 1].pc # "idle"
    /\ LET call == [calls[c] EXCEPT !.volume = volume, !.unit = unit,
                                    !.count = count,
                                    !.startedAfterInit = SomeCallInitialized]
       IN  IF ~cryptoInitialized
           THEN /\ calls' = [calls EXCEPT ![c] =
                       [call EXCEPT !.pc = "getPublicKey", !.keyFetches = @ + 1]]
                /\ UNCHANGED keyCounter
           ELSE SendSecureRequest(c, call, publicKey, isInitialized)
    /\ UNCHANGED <<cryptoInitialized, publicKey, isInitialized, faults>>
    /\ UNCHANGED serverVars
    /\ UNCHANGED uiVars

\* A PublicKeySettles in which CryptoManager.init stores nothing: the call
\* goes on, publicKey and isInitialized stay as they were.
PublicKeySettlesInitSkipped(c, response) ==
    /\ calls[c].pc = "getPublicKey"
    /\ Faulty(response, PublicKeyHandler) => faults < MaxFaults
    /\ faults' = IF Faulty(response, PublicKeyHandler) THEN faults + 1 ELSE faults
    /\ calls' = [calls EXCEPT ![c] =
           IF IsUndefined(getPublicKey(response))
           THEN [@ EXCEPT !.pc = "done",
                          !.keyFetchFailed = Faulty(response, PublicKeyHandler),
                          !.result = Null]
           ELSE [@ EXCEPT !.pc = "init",
                          !.keyFetchFailed = Faulty(response, PublicKeyHandler)]]
    /\ UNCHANGED <<cryptoInitialized, publicKey, isInitialized, keyCounter>>
    /\ UNCHANGED serverVars
    /\ UNCHANGED uiVars

\* A PublicKeySettles that records the attempt as done even when no key came:
\* cryptoInitialized is set on failure too.
PublicKeySettlesLatching(c, response) ==
    /\ calls[c].pc = "getPublicKey"
    /\ Faulty(response, PublicKeyHandler) => faults < MaxFaults
    /\ faults' = IF Faulty(response, PublicKeyHandler) THEN faults + 1 ELSE faults
    /\ LET fetched == getPublicKey(response)
       IN  IF IsUndefined(fetched)
           THEN /\ calls' = [calls EXCEPT ![c] =
                       [@ EXCEPT !.pc = "done",
                                 !.keyFetchFailed = Faulty(response, PublicKeyHandler),
                                 !.result = Null]]
                /\ cryptoInitialized' = TRUE
                /\ UNCHANGED <<publicKey, isInitialized>>
           ELSE /\ calls' = [calls EXCEPT ![c] =
                       [@ EXCEPT !.pc = "init",
                                 !.keyFetchFailed = Faulty(response, PublicKeyHandler)]]
                /\ publicKey' = fetched
                /\ isInitialized' = TRUE
                /\ UNCHANGED cryptoInitialized
    /\ UNCHANGED keyCounter
    /\ UNCHANGED serverVars
    /\ UNCHANGED uiVars

\* await API.getPublicKey() settles for call c; with a key, CryptoManager.init
\* stores it and sets isInitialized before the call awaits init's promise.
PublicKeySettles(c, response) ==
    /\ calls[c].pc = "getPublicKey"
    /\ Faulty(response, PublicKeyHandler) => faults < MaxFaults
    /\ faults' = IF Faulty(response, PublicKeyHandler) THEN faults + 1 ELSE faults
    /\ LET fetched == getPublicKey(response)
       IN  IF IsUndefined(fetched)
           THEN /\ calls' = [calls EXCEPT ![c] =
                       [@ EXCEPT !.pc = "done",
                                 !.keyFetchFailed = Faulty(response, PublicKeyHandler),
                                 !.result = Null]]
                /\ UNCHANGED <<publicKey, isInitialized>>
           ELSE /\ calls' = [calls EXCEPT ![c] =
                       [@ EXCEPT !.pc = "init",
                                 !.keyFetchFailed = Faulty(response, PublicKeyHandler)]]
                /\ publicKey' = fetched
                /\ isInitialized' = TRUE
    /\ UNCHANGED <<cryptoInitialized, keyCounter>>
    /\ UNCHANGED serverVars
    /\ UNCHANGED uiVars

\* An InitResumes that never sets cryptoInitialized.
InitResumesFlagUnset(c) ==
    /\ calls[c].pc = "init"
    /\ SendSecureRequest(c, calls[c], publicKey, isInitialized)
    /\ UNCHANGED <<cryptoInitialized, publicKey, isInitialized, faults>>
    /\ UNCHANGED serverVars
    /\ UNCHANGED uiVars

\* await CryptoManager.init(publicKey) resumes call c: cryptoInitialized = true,
\* then the session key is generated, wrapped and sent.
InitResumes(c) ==
    /\ calls[c].pc = "init"
    /\ cryptoInitialized' = TRUE
    /\ SendSecureRequest(c, calls[c], publicKey, isInitialized)
    /\ UNCHANGED <<publicKey, isInitialized, faults>>
    /\ UNCHANGED serverVars
    /\ UNCHANGED uiVars

\* The server answers the POST of call c.
ServerAnswers(c) ==
    /\ calls[c].pc = "fetch"
    /\ calls[c].response = NoResponse
    /\ LET req == ClientRequest(calls[c].volume, calls[c].unit, calls[c].count,
                                calls[c].encryptedAesKey)
       IN  /\ \E shuffled \in ShuffledChoices(req) :
                  /\ calls' = [calls EXCEPT ![c].response = Handle(req, shuffled)]
                  /\ envelopes' = Sent(envelopes, Handle(req, shuffled))
           /\ ivCounter' = IF ReachesEncryption(req) THEN ivCounter + 1 ELSE ivCounter
    /\ UNCHANGED <<env, rsaKey, publicKeyPEM, served, lastExchange>>
    /\ UNCHANGED <<cryptoInitialized, publicKey, isInitialized, keyCounter, faults>>
    /\ UNCHANGED uiVars

\* A FetchSettles that sends the POST once more when the first attempt gave no data.
FetchSettlesRetrying(c, how) ==
    /\ calls[c].pc = "fetch"
    /\ calls[c].response = NoResponse => how = "networkError"
    /\ how \in TamperKinds => calls[c].response.status = 200
    /\ how # "intact" => faults < MaxFaults
    /\ faults' = IF how # "intact" THEN faults + 1 ELSE faults
    /\ LET delivered == Deliver(calls[c].response, how)
           result == LoadResult(delivered, calls[c].aesKey)
       IN  calls' = [calls EXCEPT ![c] =
               IF result = Null /\ calls[c].posts < 2
               THEN [@ EXCEPT !.response = NoResponse, !.posts = @ + 1]
               ELSE [@ EXCEPT !.pc = "done", !.delivered = delivered,
                              !.result = result]]
    /\ UNCHANGED <<cryptoInitialized, publicKey, isInitialized, keyCounter>>
    /\ UNCHANGED serverVars
    /\ UNCHANGED uiVars

\* A FetchSettles that decrypts with a session key shared between the calls:
\* the one generated last.
FetchSettlesSharedKey(c, how) ==
    /\ calls[c].pc = "fetch"
    /\ calls[c].response = NoResponse => how = "networkError"
    /\ how \in TamperKinds => calls[c].response.status = 200
    /\ how # "intact" => faults < MaxFaults
    /\ faults' = IF how # "intact" THEN faults + 1 ELSE faults
    /\ LET delivered == Deliver(calls[c].response, how)
       IN  calls' = [calls EXCEPT ![c] =
               [@ EXCEPT !.pc = "done", !.delivered = delivered,
                         !.result = LoadResult(delivered,
                                               generateAesKey(keyCounter - 1))]]
    /\ UNCHANGED <<cryptoInitialized, publicKey, isInitialized, keyCounter>>
    /\ UNCHANGED serverVars
    /\ UNCHANGED uiVars

\* await fetch(...) settles for call c with what the transport delivers (only
\* a rejection when the request never reached the server); the
\* call runs to its return.
FetchSettles(c, how) ==
    /\ calls[c].pc = "fetch"
    /\ calls[c].response = NoResponse => how = "networkError"
    /\ how \in TamperKinds => calls[c].response.status = 200
    /\ how # "intact" => faults < MaxFaults
    /\ faults' = IF how # "intact" THEN faults + 1 ELSE faults
    /\ LET delivered == Deliver(calls[c].response, how)
       IN  calls' = [calls EXCEPT ![c] =
               [@ EXCEPT !.pc = "done", !.delivered = delivered,
                         !.result = LoadResult(delivered, calls[c].aesKey)]]
    /\ UNCHANGED <<cryptoInitialized, publicKey, isInitialized, keyCounter>>
    /\ UNCHANGED serverVars
    /\ UNCHANGED uiVars

\* await fetch(...) settles for call c with the envelope the server sent in
\* answer to another call d (a cache or proxy serving a stored response); the
\* call runs to its return.
FetchSettlesSwapped(c, d) ==
    /\ calls[c].pc = "fetch"
    /\ d # c
    /\ calls[d].response.status = 200
    /\ faults < MaxFaults
    /\ faults' = faults + 1
    /\ calls' = [calls EXCEPT ![c] =
           [@ EXCEPT !.pc = "done", !.delivered = calls[d].response,
                     !.result = LoadResult(calls[d].response, calls[c].aesKey)]]
    /\ UNCHANGED <<cryptoInitialized, publicKey, isInitialized, keyCounter>>
    /\ UNCHANGED serverVars
    /\ UNCHANGED uiVars

Next ==
    \/ \E c \in CallIds, volume \in ClientVolumes, unit \in ClientUnits,
          count \in ClientCounts : Start(c, volume, unit, count)
    \/ \E c \in CallIds, response \in PublicKeyDeliveries : PublicKeySettles(c, response)
    \/ \E c \in CallIds : InitResumes(c)
    \/ \E c \in CallIds : ServerAnswers(c)
    \/ \E c \in CallIds, how \in DeliveryKinds : FetchSettles(c, how)
    \/ \E c, d \in CallIds : FetchSettlesSwapped(c, d)

\* The server configurations the client calls run against: both keys taken
\* from the environment, and RSA_PUBLIC_KEY set without RSA_PRIVATE_KEY.
\* (Without RSA_PUBLIC_KEY the server publishes the public half of rsaKey, as
\* it does with both keys set.)
ClientEnvChoices == {e \in EnvChoices : ~IsUndefined(e.RSA_PUBLIC_KEY)}

InitClient == Init /\ env \in ClientEnvChoices

Spec == InitClient /\ [][Next]_vars

\* The same system with the scheduling JavaScript guarantees: the continuation
\* of an await on a settled promise (await CryptoManager.init) always runs.
\* Nothing obliges the network or the server to answer a fetch.
SpecLive == Spec /\ \A c \in CallIds : WF_vars(InitResumes(c))

-----------------------------------------------------------------------------
(* The server against arbitrary callers.                                   *)

\* Session keys a caller may wrap: the all-zero key, a random one, and a text
\* that is not 64 hexadecimal digits.
ZeroKeyHex == BytesToHex([i \in 1..AES_KEY_BYTES |-> 0])
ShortKeyHex == SubSeq(ZeroKeyHex, 1, AES_KEY_BYTES)

\* The encryptedAesKey values of callers: none, an empty or arbitrary string,
\* and RSA encryptions under the published key, under the public half of the
\* server's own key, and under a foreign key; PKCS#1 v1.5 or OAEP.
CallerEncryptedKeys ==
    {Undefined, Str(<<>>), Str(<<"not a ciphertext">>),
     JSEncryptEncrypt(publicKeyPEM, ZeroKeyHex),
     JSEncryptEncrypt(ExportPublicKey(rsaKey), generateAesKey(1)),
     JSEncryptEncrypt(ExportPublicKey(rsaKey), ShortKeyHex),
     JSEncryptEncrypt(PublicPem(ForeignPair), ZeroKeyHex),
     [JSEncryptEncrypt(publicKeyPEM, ZeroKeyHex) EXCEPT !.scheme = "oaep"]}

CallerUnits == {"1", "2", "3", "9"}
CallerCounts == {<<"1", "x">>, <<"5">>, <<"0">>, <<"a", "b", "c">>}

CallerRequests ==
    {SecureRequest("unit", "1", unit, <<>>, key) :
        unit \in CallerUnits, key \in CallerEncryptedKeys}
    \cup {SecureRequest("count", "1", unit, count, key) :
        unit \in CallerUnits, count \in CallerCounts, key \in CallerEncryptedKeys}

\* A GET /api/publicKey that replaces the keypair with a newly generated one
\* before it answers.
ServePublicKeyRotating ==
    /\ served < MaxServerCalls
    /\ served' = served + 1
    /\ rsaKey' = [pair |-> "rotated", bits |-> RSA_BITS,
                  encryptionScheme |-> "pkcs1", generated |-> TRUE]
    /\ publicKeyPEM' = PublicPem("rotated")
    /\ lastExchange' =
           [req |-> PublicKeyRequest,
            resp |-> [status |-> 200,
                      body |-> [EmptyBody EXCEPT
                                   !.publicKey = PublicPem("rotated")]]]
    /\ UNCHANGED <<env, ivCounter, envelopes>>
    /\ UNCHANGED clientVars
    /\ UNCHANGED uiVars

\* GET /api/publicKey of some caller.
ServePublicKey ==
    /\ served < MaxServerCalls
    /\ served' = served + 1
    /\ lastExchange' = [req |-> PublicKeyRequest, resp |-> PublicKeyHandler]
    /\ UNCHANGED <<env, rsaKey, publicKeyPEM, ivCounter, envelopes>>
    /\ UNCHANGED clientVars
    /\ UNCHANGED uiVars

\* POST to a secure endpoint by some caller.
ServeSecure(req) ==
    /\ served < MaxServerCalls
    /\ served' = served + 1
    /\ \E shuffled \in ShuffledChoices(req) :
           /\ lastExchange' = [req |-> req, resp |-> Handle(req, shuffled)]
           /\ envelopes' = Sent(envelopes, Handle(req, shuffled))
    /\ ivCounter' = IF ReachesEncryption(req) THEN ivCounter + 1 ELSE ivCounter
    /\ UNCHANGED <<env, rsaKey, publicKeyPEM>>
    /\ UNCHANGED clientVars
    /\ UNCHANGED uiVars

NextServer ==
    \/ ServePublicKey
    \/ \E req \in CallerRequests : ServeSecure(req)

SpecServer == Init /\ [][NextServer]_vars

-----------------------------------------------------------------------------
(* The parts of the client that do not talk to the server run with the     *)
(* server as configured by the .env file.                                  *)

InitUi ==
    /\ Init
    /\ env = [RSA_PRIVATE_KEY |-> PrivatePem(DotEnvPair),
              RSA_PUBLIC_KEY |-> PublicPem(DotEnvPair)]

-----------------------------------------------------------------------------
(* The speech queue (client/src/utils/speechManager.js): SpeechQueue,      *)
(* SpeechConsumer and the browser's speech engine.  Items are the text     *)
(* items SpeechManager.queueSpeech produces, numbered in the order they     *)
(* are enqueued; the queue never reaches its maximum size here.            *)

\* The state the methods below read and write, as one record.
SpeechState ==
    [items |-> queuedItems, processing |-> processing, isProcessing |-> isProcessing,
     isSpeaking |-> isSpeaking, processingTimeout |-> processingTimeout,
     timers |-> timers, pendingStarts |-> pendingStarts, speaking |-> speaking,
     cancelled |-> cancelled, ended |-> ended, enqueued |-> enqueued,
     dropped |-> dropped]

\* The state after a method ran to its end.
SetSpeechState(s) ==
    /\ queuedItems' = s.items
    /\ processing' = s.processing
    /\ isProcessing' = s.isProcessing
    /\ isSpeaking' = s.isSpeaking
    /\ processingTimeout' = s.processingTimeout
    /\ timers' = s.timers
    /\ pendingStarts' = s.pendingStarts
    /\ speaking' = s.speaking
    /\ cancelled' = s.cancelled
    /\ ended' = s.ended
    /\ enqueued' = s.enqueued
    /\ dropped' = s.dropped

\* SpeechSynthesizer.cancel(): the engine stops the utterance it is speaking;
\* it reports that utterance's end or error to its handlers afterwards.
SynthesizerCancel(s) ==
    [s EXCEPT !.cancelled = IF s.speaking # 0 THEN @ \cup {s.speaking} ELSE @,
              !.speaking = 0]

\* if (this._processingTimeout) { clearTimeout(...); this._processingTimeout = null }
ClearProcessingTimeout(s) ==
    [s EXCEPT !.timers = IF s.processingTimeout # 0
                         THEN @ \ {s.processingTimeout} ELSE @,
              !.processingTimeout = 0]

\* if (item.onEnd) item.onEnd(); if (!this._queue.isEmpty())
\*     setTimeout(() => this.startConsuming(), 0)
FinishItem(s, item) ==
    [s EXCEPT !.ended = @ \cup {item},
              !.pendingStarts = IF s.items # <<>> THEN @ + 1 ELSE @]

\* SpeechConsumer.startConsuming() for a text item: dequeue, set the safety
\* timeout (the handle stored before is overwritten, not cleared), cancel
\* any ongoing speech and speak the item.
startConsuming(s) ==
    IF s.isProcessing \/ s.items = <<>> THEN s
    ELSE LET item == Head(s.items)
             taken == [s EXCEPT !.isProcessing = TRUE,
                                !.items = Tail(s.items),
                                !.processingTimeout = item,
                                !.timers = @ \cup {item},
                                !.isSpeaking = TRUE]
         IN  [SynthesizerCancel(taken) EXCEPT !.speaking = item]

\* SpeechQueue.enqueue(item): push, and start the consumer when this is the
\* only item and _processing is not set.
enqueue(s, item) ==
    LET pushed == [s EXCEPT !.items = Append(@, item), !.enqueued = item]
    IN  IF Len(pushed.items) = 1 /\ ~s.processing
        THEN startConsuming([pushed EXCEPT !.processing = TRUE])
        ELSE pushed

\* The onEndWrapper startConsuming gave the utterance of item.
onEndWrapper(s, item) ==
    FinishItem(ClearProcessingTimeout([s EXCEPT !.isSpeaking = FALSE,
                                                !.isProcessing = FALSE]),
               item)

\* The errorHandler startConsuming gave the utterance of item.
errorHandler(s, item) ==
    FinishItem(ClearProcessingTimeout([s EXCEPT !.isSpeaking = FALSE,
                                                !.isProcessing = FALSE]),
               item)

\* The callback of the 5-second safety timeout set for item.
safetyTimeout(s, item) ==
    LET fired == [s EXCEPT !.processingTimeout = 0, !.timers = @ \ {item}]
        quiet == IF fired.isSpeaking
                 THEN [SynthesizerCancel(fired) EXCEPT !.isSpeaking = FALSE]
                 ELSE fired
    IN  FinishItem([quiet EXCEPT !.isProcessing = FALSE], item)

\* SpeechManager.stopSpeech(): speechQueue.clear(), then
\* speechConsumer.stopConsuming(). The items that had not ended are given up.
stopSpeech(s) ==
    LET emptied == [s EXCEPT !.items = <<>>, !.processing = FALSE,
                             !.dropped = @ \cup ((1..s.enqueued) \ s.ended)]
    IN  ClearProcessingTimeout([SynthesizerCancel(emptied) EXCEPT
                                    !.isSpeaking = FALSE,
                                    !.isProcessing = FALSE])

\* SpeechManager.queueSpeech(text, ...) with a text: the item is enqueued.
QueueSpeech ==
    /\ enqueued < MaxItems
    /\ SetSpeechState(enqueue(SpeechState, enqueued + 1))
    /\ UNCHANGED stops
    /\ UNCHANGED <<serverVars, clientVars, sequencerVars, initVars>>

\* The engine finished speaking the utterance of item i: its onend runs.
UtteranceEnds(i) ==
    /\ speaking = i
    /\ SetSpeechState(onEndWrapper([SpeechState EXCEPT !.speaking = 0], i))
    /\ UNCHANGED stops
    /\ UNCHANGED <<serverVars, clientVars, sequencerVars, initVars>>

\* The engine reports an error for the utterance of item i, one it is
\* speaking or one that was cancelled: its onerror runs.
UtteranceErrors(i) ==
    /\ speaking = i \/ i \in cancelled
    /\ SetSpeechState(errorHandler(
           [SpeechState EXCEPT !.speaking = IF @ = i THEN 0 ELSE @,
                               !.cancelled = @ \ {i}], i))
    /\ UNCHANGED stops
    /\ UNCHANGED <<serverVars, clientVars, sequencerVars, initVars>>

\* The safety timeout of item i fires.
SafetyTimeoutFires(i) ==
    /\ i \in timers
    /\ SetSpeechState(safetyTimeout(SpeechState, i))
    /\ UNCHANGED stops
    /\ UNCHANGED <<serverVars, clientVars, sequencerVars, initVars>>

\* A setTimeout(() => this.startConsuming(), 0) runs.
DeferredStart ==
    /\ pendingStarts > 0
    /\ SetSpeechState(startConsuming([SpeechState EXCEPT !.pendingStarts = @ - 1]))
    /\ UNCHANGED stops
    /\ UNCHANGED <<serverVars, clientVars, sequencerVars, initVars>>

\* SpeechManager.stopSpeech() is called.
StopSpeech ==
    /\ stops < MaxStops
    /\ stops' = stops + 1
    /\ SetSpeechState(stopSpeech(SpeechState))
    /\ UNCHANGED <<serverVars, clientVars, sequencerVars, initVars>>

NextSpeech ==
    \/ QueueSpeech
    \/ \E i \in 1..MaxItems : UtteranceEnds(i)
    \/ \E i \in 1..MaxItems : UtteranceErrors(i)
    \/ \E i \in 1..MaxItems : SafetyTimeoutFires(i)
    \/ DeferredStart
    \/ StopSpeech

\* The browser runs every timer callback that was not cleared, and the
\* engine reports the end or an error of an utterance unless the safety
\* timeout of its item fires first.
SpecSpeech ==
    /\ InitUi
    /\ [][NextSpeech]_vars
    /\ WF_vars(DeferredStart)
    /\ \A i \in 1..MaxItems :
           WF_vars(UtteranceEnds(i) \/ UtteranceErrors(i) \/ SafetyTimeoutFires(i))

-----------------------------------------------------------------------------
(* Sequencer (the class at the end of client/src/utils/dataLoader.js).     *)
(* Actions are numbered in the order they are added; each run() loop is    *)
(* suspended at `await action()` of the action it started.                 *)

\* The state the methods below read and write, as one record.
SequencerState ==
    [queue |-> queue, running |-> running, active |-> active,
     started |-> started]

SetSequencerState(s) ==
    /\ queue' = s.queue
    /\ running' = s.running
    /\ active' = s.active
    /\ started' = s.started

\* One turn of the while loop of run(): the next action is shifted and called
\* and the loop waits for it; with an empty queue the loop ends and
\* running is reset.
RunLoop(s) ==
    IF s.queue # <<>>
    THEN [s EXCEPT !.queue = Tail(@),
                   !.active = @ \cup {Head(s.queue)},
                   !.started = Append(@, Head(s.queue))]
    ELSE [s EXCEPT !.running = FALSE]

\* run(): this.running = true, then the loop.
run(s) == RunLoop([s EXCEPT !.running = TRUE])

\* addMany(actions): push, and run() unless running; add(action) is the
\* same with one action.
addMany(s, actions) ==
    LET pushed == [s EXCEPT !.queue = @ \o actions]
    IN  IF ~s.running THEN run(pushed) ELSE pushed

\* clear(): this.queue = []; this.running = false.
clear(s) == [s EXCEPT !.queue = <<>>, !.running = FALSE]

\* sequencer.add(action)
Add ==
    /\ added < MaxActions
    /\ added' = added + 1
    /\ SetSequencerState(addMany(SequencerState, <<added + 1>>))
    /\ UNCHANGED <<thrown, clears>>
    /\ UNCHANGED <<serverVars, clientVars, speechVars, initVars>>

\* sequencer.addMany([action, action])
AddMany ==
    /\ added + 1 < MaxActions
    /\ added' = added + 2
    /\ SetSequencerState(addMany(SequencerState, <<added + 1, added + 2>>))
    /\ UNCHANGED <<thrown, clears>>
    /\ UNCHANGED <<serverVars, clientVars, speechVars, initVars>>

\* The promise of action a settles (it is rejected when threw): the loop
\* that awaited it goes on; a rejection is caught and logged.
ActionSettles(a, threw) ==
    /\ a \in active
    /\ thrown' = IF threw THEN thrown \cup {a} ELSE thrown
    /\ SetSequencerState(RunLoop([SequencerState EXCEPT !.active = @ \ {a}]))
    /\ UNCHANGED <<added, clears>>
    /\ UNCHANGED <<serverVars, clientVars, speechVars, initVars>>

\* sequencer.clear()
Clear ==
    /\ clears < MaxClears
    /\ clears' = clears + 1
    /\ SetSequencerState(clear(SequencerState))
    /\ UNCHANGED <<added, thrown>>
    /\ UNCHANGED <<serverVars, clientVars, speechVars, initVars>>

NextSequencer ==
    \/ Add
    \/ AddMany
    \/ \E a \in 1..MaxActions, threw \in BOOLEAN : ActionSettles(a, threw)
    \/ Clear

SpecSequencer == InitUi /\ [][NextSequencer]_vars

-----------------------------------------------------------------------------
(* CryptoManager.init called directly (cryptoManager.js).                  *)

\* !value for a string or a missing value
Falsy(value) ==
    IsUndefined(value) \/ (value.kind = "string" /\ value.chars = <<>>)

\* An init that forgets the stored key when it fails.
initResetting(serverPublicKey, response, pk, initialized) ==
    IF ~Falsy(serverPublicKey)
    THEN [returned |-> TRUE, publicKey |-> serverPublicKey,
          isInitialized |-> TRUE, fetches |-> 0]
    ELSE IF Falsy(getPublicKey(response))
    THEN [returned |-> FALSE, publicKey |-> Undefined,
          isInitialized |-> FALSE, fetches |-> 1]
    ELSE [returned |-> TRUE, publicKey |-> getPublicKey(response),
          isInitialized |-> TRUE, fetches |-> 1]

\* init(serverPublicKey) with the closure's publicKey pk and isInitialized
\* flag; response is what fetch gives API.getPublicKey if init calls it.
\* The value returned, the closure afterwards and the number of fetches.
init(serverPublicKey, response, pk, initialized) ==
    IF ~Falsy(serverPublicKey)
    THEN [returned |-> TRUE, publicKey |-> serverPublicKey,
          isInitialized |-> TRUE, fetches |-> 0]
    ELSE IF Falsy(getPublicKey(response))
    THEN [returned |-> FALSE, publicKey |-> pk,
          isInitialized |-> initialized, fetches |-> 1]
    ELSE [returned |-> TRUE, publicKey |-> getPublicKey(response),
          isInitialized |-> TRUE, fetches |-> 1]

\* CryptoManager.init(serverPublicKey) is called and runs to its return.
CallInit(serverPublicKey, response) ==
    /\ inits < MaxInits
    /\ inits' = inits + 1
    /\ LET result == init(serverPublicKey, response, publicKey, isInitialized)
       IN  /\ publicKey' = result.publicKey
           /\ isInitialized' = result.isInitialized
           /\ lastInit' = [serverPublicKey |-> serverPublicKey,
                           responseStatus |-> IF result.fetches = 0 THEN -1
                                              ELSE response.status,
                           returned |-> result.returned,
                           fetches |-> result.fetches,
                           publicKeyBefore |-> publicKey,
                           isInitializedBefore |-> isInitialized]
    /\ UNCHANGED <<cryptoInitialized, keyCounter, faults, calls>>
    /\ UNCHANGED <<serverVars, speechVars, sequencerVars>>

\* init is called with no argument, an empty string or a key.
NextCryptoManager ==
    \E serverPublicKey \in {Undefined, Str(<<>>), PublicPem(ForeignPair),
                             PublicPem(GeneratedPair)},
       response \in PublicKeyDeliveries :
        CallInit(serverPublicKey, response)

SpecCryptoManager == InitUi /\ [][NextCryptoManager]_vars

-----------------------------------------------------------------------------
(* Properties of the client session (specification Spec).                  *)

Done(c) == calls[c].pc = "done"

\* decryptData on the envelope fetch delivered to call c, with the call's key.
DeliveredDecryption(c) ==
    decryptData(calls[c].delivered.body.encryptedData, calls[c].delivered.body.iv,
                calls[c].delivered.body.authTag, calls[c].aesKey)

\* C1: a call of loadServerVocabularyData returns data only if AES-GCM
\* decryption of the delivered response succeeded and the SHA-256 check of the
\* decrypted text against the delivered hash succeeded, and the data is the
\* parsed decrypted text; in every other case the call returns null.
C1_DataOnlyWhenDecryptedAndVerified ==
    \A c \in CallIds :
        Done(c) =>
            /\ calls[c].result.kind \in {"data", "null"}
            /\ calls[c].result.kind = "data" =>
                   /\ ResponseOk(calls[c].delivered)
                   /\ DeliveredDecryption(c).ok
                   /\ verifyDataIntegrity(DeliveredDecryption(c).text,
                                          calls[c].delivered.body.hash)
                   /\ calls[c].result.value = JsonParse(DeliveredDecryption(c).text).value

\* One call returned data, and another decrypted its response successfully,
\* failed the hash check and returned null.
C1_Witness ==
    /\ \E c \in CallIds : Done(c) /\ calls[c].result.kind = "data"
    /\ \E c \in CallIds :
           /\ Done(c) /\ ResponseOk(calls[c].delivered)
           /\ DeliveredDecryption(c).ok
           /\ ~verifyDataIntegrity(DeliveredDecryption(c).text,
                                   calls[c].delivered.body.hash)
           /\ calls[c].result = Null

TotalKeyFetches ==
    LET RECURSIVE Sum(_)
        Sum(n) == IF n = 0 THEN 0 ELSE calls[n].keyFetches + Sum(n - 1)
    IN  Sum(MaxCalls)

\* C2: as long as no public-key fetch has failed, the calls of one session
\* issue at most one GET /publicKey in total, also when several calls start
\* before the key is cached.
C2_SinglePublicKeyFetch ==
    (\A c \in CallIds : ~calls[c].keyFetchFailed) => TotalKeyFetches <= 1

HasKey(c) == calls[c].aesKey # <<>>

\* C3: every call that gets as far as the POST has generated one session key
\* of its own (one getRandomValues draw per call), wraps and sends that key,
\* and no two calls hold the same key, whatever resource they ask for.
C3_SessionKeyPerRequest ==
    /\ keyCounter = Cardinality({c \in CallIds : HasKey(c)})
    /\ \A c \in CallIds :
           calls[c].pc \in {"fetch", "done"} /\ calls[c].posts > 0 =>
               /\ HasKey(c)
               /\ calls[c].posts = 1
               /\ calls[c].encryptedAesKey.text = calls[c].aesKey
               /\ Len(hexToArrayBuffer(calls[c].aesKey).bytes) = AES_KEY_BYTES
    /\ \A c1, c2 \in CallIds :
           c1 # c2 /\ HasKey(c1) /\ HasKey(c2) => calls[c1].aesKey # calls[c2].aesKey

\* Two calls for the same volume and unit have both sent their POST.
C3_Witness ==
    \E c1, c2 \in CallIds :
        /\ c1 # c2
        /\ calls[c1].unit = calls[c2].unit
        /\ calls[c1].posts = 1 /\ calls[c2].posts = 1
        /\ Done(c1) /\ calls[c1].result.kind = "data"

\* C5: whenever the ciphertext or the authentication tag fetch delivered
\* differs from the one the server sent, decryptData with the call's key fails.
C5_AnyChangeFailsDecryption ==
    \A c \in CallIds :
        (/\ Done(c)
         /\ calls[c].response.status = 200
         /\ calls[c].delivered.status = 200
         /\ \/ calls[c].delivered.body.encryptedData # calls[c].response.body.encryptedData
            \/ calls[c].delivered.body.authTag # calls[c].response.body.authTag)
        => ~DeliveredDecryption(c).ok

\* C9: a call whose public-key fetch was unreachable, answered non-OK or
\* carried no key has returned null, has sent no POST, has generated no
\* session key and has made exactly one key fetch.
C9_KeyFetchFailureEndsCall ==
    \A c \in CallIds :
        calls[c].keyFetchFailed =>
            /\ Done(c)
            /\ calls[c].result = Null
            /\ calls[c].posts = 0
            /\ ~HasKey(c)
            /\ calls[c].keyFetches = 1

\* A call ended by a failed key fetch, after which the next call tried again.
C9_Witness ==
    \E c1, c2 \in CallIds :
        /\ calls[c1].keyFetchFailed /\ Done(c1)
        /\ ~calls[c2].keyFetchFailed /\ calls[c2].keyFetches = 1

\* C10: a call started after some call fetched the public key and resumed from
\* CryptoManager.init issues no GET /publicKey, goes straight to its POST, and
\* wraps its session key with the cached key, the same key every other call
\* of the session wrapped with.
C10_InitializationIsIdempotent ==
    \A c \in CallIds :
        calls[c].startedAfterInit =>
            /\ calls[c].keyFetches = 0
            /\ calls[c].pc \in {"fetch", "done"}
            /\ calls[c].posts = 1
            /\ calls[c].wrappedWith = publicKey
            /\ \A c2 \in CallIds :
                   calls[c2].posts = 1 => calls[c2].wrappedWith = calls[c].wrappedWith

\* A call that started after initialization has returned data.
C10_Witness ==
    \E c \in CallIds :
        /\ calls[c].startedAfterInit
        /\ Done(c) /\ calls[c].result.kind = "data"
        /\ calls[c].keyFetches = 0

-----------------------------------------------------------------------------
(* Properties of the server (specification SpecServer).                    *)

IsSecureExchange == lastExchange.req.endpoint \in {"unit", "count"}

\* The texts the handler of req can encrypt.
ServerPlaintexts(req) ==
    LET parsed == JsonParse(ReadFile(FileName(req.volume, req.unit)).data)
    IN  IF req.endpoint = "count"
        THEN {JsonStringify(SliceFirst(shuffled, ParseInt10(req.count).value)) :
                 shuffled \in Shuffles(parsed.value)}
        ELSE {JsonStringify(parsed.value)}

\* decryptData on the server's last answer with the session key text keyText.
AnswerDecryption(keyText) ==
    decryptData(lastExchange.resp.body.encryptedData, lastExchange.resp.body.iv,
                lastExchange.resp.body.authTag, keyText)

\* C4: every envelope the server produces for a wrapped 32-byte session key K,
\* passed unmodified to decryptData with K, yields the server's plaintext, and
\* verifyDataIntegrity accepts that plaintext against the envelope's hash.
C4_RoundTrip ==
    (IsSecureExchange /\ lastExchange.resp.status = 200) =>
        LET keyText == lastExchange.req.encryptedAesKey.text
        IN  /\ AnswerDecryption(keyText).ok
            /\ AnswerDecryption(keyText).text \in ServerPlaintexts(lastExchange.req)
            /\ verifyDataIntegrity(AnswerDecryption(keyText).text,
                                   lastExchange.resp.body.hash)

\* The server produced an envelope for the all-zero key.
C4_Witness ==
    /\ IsSecureExchange /\ lastExchange.resp.status = 200
    /\ lastExchange.req.encryptedAesKey.text = ZeroKeyHex
    /\ AnswerDecryption(ZeroKeyHex).ok

\* C6: a session key wrapped (PKCS#1 v1.5) under the public key the server
\* published is unwrapped to exactly that key; a key wrapped under the public
\* key of any other keypair fails to unwrap, and the answer is an error
\* without an envelope.
C6_PublishedKeyUnwraps ==
    LET wrapped == lastExchange.req.encryptedAesKey
    IN  (IsSecureExchange /\ wrapped.kind = "rsa" /\ wrapped.scheme = "pkcs1") =>
            /\ wrapped.pair = publicKeyPEM.pair =>
                   NodeRsaDecrypt(rsaKey, wrapped) = [ok |-> TRUE, text |-> wrapped.text]
            /\ wrapped.pair # publicKeyPEM.pair =>
                   /\ ~NodeRsaDecrypt(rsaKey, wrapped).ok
                   /\ lastExchange.resp.status = 400
                   /\ IsUndefined(lastExchange.resp.body.encryptedData)

\* chars contains text as a contiguous part.
ContainsText(chars, text) ==
    \E i \in 1..(Len(chars) - Len(text) + 1) : SubSeq(chars, i, i + Len(text) - 1) = text

\* A receiver without any key reads the session key keyText out of value.
Discloses(value, keyText) ==
    \/ value.kind = "string" /\ ContainsText(value.chars, keyText)
    \/ value.kind = "base64" /\ value.bytes.kind = "raw"
           /\ value.bytes.octets = BufferFromHex(keyText)
    \/ value.kind = "base64" /\ value.bytes.kind = "utf8"
           /\ ContainsText(value.bytes.chars, keyText)

\* C7: no field of any response is the RSA private key, the only PEM the
\* server sends is publicKeyPEM in the publicKey field and it is a public
\* key, and no field lets its reader read the session key the server unwrapped.
C7_NoSecretInResponses ==
    LET body == lastExchange.resp.body
        wrapped == lastExchange.req.encryptedAesKey
    IN  \A f \in DOMAIN body :
            /\ body[f] # PrivatePem(rsaKey.pair)
            /\ body[f].kind = "pem" =>
                   f = "publicKey" /\ body[f] = publicKeyPEM /\ body[f].half = "public"
            /\ (wrapped.kind = "rsa" /\ NodeRsaDecrypt(rsaKey, wrapped).ok) =>
                   ~Discloses(body[f], NodeRsaDecrypt(rsaKey, wrapped).text)

\* The server unwrapped a session key and answered with an envelope.
C7_Witness ==
    /\ IsSecureExchange /\ lastExchange.resp.status = 200
    /\ NodeRsaDecrypt(rsaKey, lastExchange.req.encryptedAesKey).ok
    /\ lastExchange.resp.body.encryptedData.kind = "base64"
    /\ served = MaxServerCalls

KeyUnwraps(req) ==
    ~MissingKey(req.encryptedAesKey) /\ NodeRsaDecrypt(rsaKey, req.encryptedAesKey).ok
ResourceMissing(req) == ReadFile(FileName(req.volume, req.unit)).code = "ENOENT"
CountInvalid(req) ==
    req.endpoint = "count" /\ (ParseInt10(req.count).nan \/ ParseInt10(req.count).value < 1)
\* The file cannot be read or parsed, or the unwrapped key is not 32 bytes.
OtherFailure(req) ==
    LET file == ReadFile(FileName(req.volume, req.unit))
    IN  \/ file.code \notin {"", "ENOENT"}
        \/ file.code = "" /\ ~JsonParse(file.data).ok
        \/ file.code = "" /\ Len(BufferFromHex(NodeRsaDecrypt(rsaKey, req.encryptedAesKey).text))
                                 # AES_KEY_BYTES
IsErrorBody(body) ==
    /\ body.error.kind = "string"
    /\ \A f \in {"encryptedData", "iv", "authTag", "hash", "publicKey"} : IsUndefined(body[f])
IsEnvelope(body) ==
    /\ \A f \in {"encryptedData", "iv", "authTag", "hash"} : body[f].kind = "base64"
    /\ IsUndefined(body.error)

\* C8 as stated: 400 exactly when encryptedAesKey is missing or cannot be
\* unwrapped, 404 exactly when the key unwrapped and the resource does not
\* exist, 500 exactly on any other failure, otherwise 200 with a full
\* envelope; every answer that is not 200 is an error object without
\* encryptedData.
C8_StatusByKeyAndResource ==
    IsSecureExchange =>
        LET req == lastExchange.req
            resp == lastExchange.resp
        IN  /\ resp.status \in {200, 400, 404, 500}
            /\ resp.status = 400 <=> ~KeyUnwraps(req)
            /\ resp.status = 404 <=> (KeyUnwraps(req) /\ ResourceMissing(req))
            /\ resp.status = 500 <=>
                   (KeyUnwraps(req) /\ ~ResourceMissing(req) /\ OtherFailure(req))
            /\ resp.status = 200 => IsEnvelope(resp.body)
            /\ resp.status # 200 => IsErrorBody(resp.body)

\* C8 amended: 400 exactly when the count of the count endpoint is not a
\* number of at least 1 or encryptedAesKey is missing or cannot be unwrapped,
\* 404 exactly when neither holds and the resource does not exist, 500 exactly
\* on any other failure, otherwise 200 with a full envelope; every answer that
\* is not 200 is an error object without encryptedData.
C8_StatusByCountKeyAndResource ==
    IsSecureExchange =>
        LET req == lastExchange.req
            resp == lastExchange.resp
        IN  /\ resp.status \in {200, 400, 404, 500}
            /\ resp.status = 400 <=> (CountInvalid(req) \/ ~KeyUnwraps(req))
            /\ resp.status = 404 <=>
                   (~CountInvalid(req) /\ KeyUnwraps(req) /\ ResourceMissing(req))
            /\ resp.status = 500 <=>
                   (/\ ~CountInvalid(req) /\ KeyUnwraps(req)
                    /\ ~ResourceMissing(req) /\ OtherFailure(req))
            /\ resp.status = 200 => IsEnvelope(resp.body)
            /\ resp.status # 200 => IsErrorBody(resp.body)

\* The count endpoint answered 400 to an invalid count sent with a key that unwraps.
C8_Witness ==
    /\ IsSecureExchange
    /\ CountInvalid(lastExchange.req) /\ KeyUnwraps(lastExchange.req)
    /\ lastExchange.resp.status = 400

\* fetch rejected: the request or its answer was lost on the way.
TransportFailed(c) == calls[c].posts = 1 /\ calls[c].delivered = NetworkError

\* The server's 404 was delivered.
NotFoundDelivered(c) == calls[c].posts = 1 /\ calls[c].delivered.status = 404

\* C11: a call that was answered 404 and a call whose fetch was rejected give
\* their callers different outcomes.
C11_NotFoundDistinctFromTransportFailure ==
    \A c1, c2 \in CallIds :
        (Done(c1) /\ Done(c2) /\ NotFoundDelivered(c1) /\ TransportFailed(c2))
            => calls[c1].result # calls[c2].result

\* C12: every envelope carries a 16-byte nonce, and two envelopes the server
\* sent under the same session key, on either endpoint, differ in their nonce
\* and in their ciphertext, also when they encrypt the same plaintext.
C12_FreshNoncePerEnvelope ==
    /\ \A i \in DOMAIN envelopes :
           /\ envelopes[i].iv.bytes.kind = "raw"
           /\ Len(envelopes[i].iv.bytes.octets) = IV_BYTES
           /\ envelopes[i].encryptedData.bytes.iv = envelopes[i].iv.bytes.octets
    /\ \A i, j \in DOMAIN envelopes :
           (i < j /\ envelopes[i].encryptedData.bytes.key = envelopes[j].encryptedData.bytes.key)
               => /\ envelopes[i].iv # envelopes[j].iv
                  /\ envelopes[i].encryptedData # envelopes[j].encryptedData

\* The same plaintext was encrypted twice under the same key, the second time
\* by the count endpoint.
C12_Witness ==
    \E i, j \in DOMAIN envelopes :
        /\ i < j
        /\ envelopes[i].encryptedData.bytes.key = envelopes[j].encryptedData.bytes.key
        /\ envelopes[i].encryptedData.bytes.text = envelopes[j].encryptedData.bytes.text
        /\ lastExchange.req.endpoint = "count"

\* Texts other than the server's plaintexts, against which a hash is tried.
OtherTexts == {<<>>, <<"[", "]">>, <<"[", "hello", "]">>, <<"[", "apple", "]">>,
               <<"[", "book", ",", "apple", "]">>, <<"[", "apple", ",", "book", "]">>,
               <<"[", "apple", ",", " ", "book", "]">>}

\* C13: the hash of an envelope is the base64 SHA-256 digest of the plaintext
\* that was encrypted; verifyDataIntegrity accepts exactly that plaintext with
\* the envelope's hash, and rejects every other text and a missing hash.
C13_HashIsDigestOfPlaintext ==
    (IsSecureExchange /\ lastExchange.resp.status = 200) =>
        LET body == lastExchange.resp.body
            plaintext == body.encryptedData.bytes.text
        IN  /\ plaintext \in ServerPlaintexts(lastExchange.req)
            /\ body.hash = Base64(Sha256(Utf8(plaintext)))
            /\ verifyDataIntegrity(plaintext, body.hash)
            /\ \A text \in OtherTexts :
                   verifyDataIntegrity(text, body.hash) <=> text = plaintext
            /\ ~verifyDataIntegrity(plaintext, Undefined)

\* The server sent an envelope for a selection of the words of a unit.
C13_Witness ==
    /\ IsSecureExchange /\ lastExchange.resp.status = 200
    /\ lastExchange.req.endpoint = "count"
    /\ lastExchange.resp.body.encryptedData.bytes.text = <<"[", "book", "]">>
    /\ verifyDataIntegrity(<<"[", "book", "]">>, lastExchange.resp.body.hash)

-----------------------------------------------------------------------------
(* Further properties of the client (specification Spec).                  *)

\* Call c was answered with an envelope and fetch delivered a 200 response.
EnvelopeDelivered(c) ==
    Done(c) /\ calls[c].response.status = 200 /\ calls[c].delivered.status = 200

\* C14: when the nonce delivered to a call differs from the nonce the server
\* sent, decryptData fails or the text it returns fails verifyDataIntegrity
\* against the delivered hash, and the call returns null.
C14_ChangedNonceGivesNoData ==
    \A c \in CallIds :
        (EnvelopeDelivered(c) /\ calls[c].delivered.body.iv # calls[c].response.body.iv)
            => /\ \/ ~DeliveredDecryption(c).ok
                  \/ ~verifyDataIntegrity(DeliveredDecryption(c).text,
                                          calls[c].delivered.body.hash)
               /\ calls[c].result = Null

\* A call received its envelope with a changed nonce and everything else intact.
C14_Witness ==
    \E c \in CallIds :
        /\ EnvelopeDelivered(c)
        /\ calls[c].delivered.body.iv # calls[c].response.body.iv
        /\ calls[c].delivered.body.encryptedData = calls[c].response.body.encryptedData
        /\ calls[c].delivered.body.authTag = calls[c].response.body.authTag
        /\ calls[c].result = Null

\* The number of bytes a base64 field of a response decodes to (-1: no such field).
DecodedLength(field) ==
    IF field.kind # "base64" THEN -1
    ELSE IF field.bytes.kind = "raw" THEN Len(field.bytes.octets)
    ELSE IF field.bytes.kind = "gcm" THEN field.bytes.to - field.bytes.from + 1
    ELSE -1

\* A field of the envelope is missing, or its nonce or tag is not 16 bytes.
Malformed(body) ==
    \/ \E f \in {"encryptedData", "iv", "authTag", "hash"} : IsUndefined(body[f])
    \/ DecodedLength(body.iv) # IV_BYTES
    \/ DecodedLength(body.authTag) # AUTH_TAG_BYTES

\* C15: a call to which a malformed 200 envelope was delivered returns null.
C15_MalformedEnvelopeRejected ==
    \A c \in CallIds :
        (Done(c) /\ calls[c].posts = 1 /\ calls[c].delivered.status = 200
            /\ Malformed(calls[c].delivered.body))
            => calls[c].result = Null

\* C16: every call that awaits a fetch (of the public key or of the payload)
\* eventually returns.
C16_EveryFetchCompletes ==
    \A c \in CallIds : (calls[c].pc \in {"getPublicKey", "fetch"}) ~> Done(c)

\* C17: a call issues at most one GET /publicKey and at most one POST,
\* whatever its outcome; a call that has returned null after its key fetch or
\* its POST failed has not tried again.
C17_NoRetries ==
    \A c \in CallIds :
        /\ calls[c].keyFetches \in {0, 1}
        /\ calls[c].posts \in {0, 1}
        /\ calls[c].posts = 1 => calls[c].pc \in {"fetch", "done"}
        /\ (Done(c) /\ calls[c].result = Null) =>
               calls[c].keyFetches + calls[c].posts \in {1, 2}

\* A call fetched the public key, sent its POST, was delivered something other
\* than the server's answer (transport error or a changed envelope) and has
\* returned null.
C17_Witness ==
    \E c \in CallIds :
        /\ Done(c) /\ calls[c].keyFetches = 1 /\ calls[c].posts = 1
        /\ calls[c].delivered # calls[c].response
        /\ calls[c].result = Null

\* What loadServerVocabularyData(volume, unit) returns for call c when it is
\* the only call and its response arrives as the server sent it: the parsed
\* content of its own resource, null when the server cannot unwrap the key of
\* the call or cannot read and parse the resource.
OwnOutcome(c) ==
    LET file == ReadFile(FileName(calls[c].volume, ServerUnit(calls[c].unit)))
        parsed == JsonParse(file.data)
    IN  IF /\ NodeRsaDecrypt(rsaKey, calls[c].encryptedAesKey).ok
           /\ file.code = ""
           /\ parsed.ok
        THEN Data(parsed.value)
        ELSE Null

\* C18: calls in flight together do not interact. A call whose POST was sent
\* and that returned data received an envelope sealed under the session key
\* it generated itself, and the data is the content of its own resource; a
\* call whose response arrived unchanged returns what it would return alone,
\* whatever the other calls did and however they ended.
C18_ConcurrentCallsIndependent ==
    \A c \in CallIds :
        (Done(c) /\ calls[c].posts = 1) =>
            /\ calls[c].result.kind = "data" =>
                   /\ calls[c].delivered.body.encryptedData.bytes.key
                          = hexToArrayBuffer(calls[c].aesKey).bytes
                   /\ calls[c].result = OwnOutcome(c)
            /\ calls[c].delivered = calls[c].response =>
                   calls[c].result = OwnOutcome(c)

\* Two calls were in flight together after initialization, the server
\* answered the second POST before the first, the second call lost its
\* answer to a fault and the first still returned its data.
C18_Witness ==
    /\ MaxCalls >= 2
    /\ Done(1) /\ Done(2)
    /\ calls[1].posts = 1 /\ calls[2].posts = 1
    /\ calls[2].keyFetches = 0
    /\ calls[1].aesKey = generateAesKey(0)
    /\ calls[2].response.status = 200
    /\ calls[2].response.body.iv = Base64(Raw(RandomIv(0)))
    /\ calls[1].response.status = 200
    /\ calls[1].response.body.iv = Base64(Raw(RandomIv(1)))
    /\ calls[2].delivered # calls[2].response
    /\ calls[2].result = Null
    /\ calls[1].delivered = calls[1].response
    /\ calls[1].result.kind = "data"

-----------------------------------------------------------------------------
(* Further properties of the server (specification SpecServer).            *)

\* C19: server key initialization over the four combinations of
\* RSA_PRIVATE_KEY and RSA_PUBLIC_KEY being set: with both set the configured
\* keys are the ones in use; in every other case the keypair is a freshly
\* generated 2048-bit one and the published key is its own public half.
C19_KeyInitialization ==
    IF ~IsUndefined(env.RSA_PRIVATE_KEY) /\ ~IsUndefined(env.RSA_PUBLIC_KEY)
    THEN /\ rsaKey.pair = env.RSA_PRIVATE_KEY.pair
         /\ ~rsaKey.generated
         /\ publicKeyPEM = env.RSA_PUBLIC_KEY
    ELSE /\ rsaKey.generated
         /\ rsaKey.pair = GeneratedPair
         /\ rsaKey.bits = RSA_BITS
         /\ publicKeyPEM = PublicPem(rsaKey.pair)

\* The step is the serving of a GET /api/publicKey.
PublicKeyServed == served' # served /\ lastExchange'.req.endpoint = "publicKey"

\* C20: no request changes the server's keypair or the key it publishes, and
\* serving GET /api/publicKey always answers 200 with that same PEM and
\* changes nothing else of the server (no nonce drawn, no envelope sent).
C20_PublicKeyServingIsPure ==
    [][ /\ rsaKey' = rsaKey
        /\ publicKeyPEM' = publicKeyPEM
        /\ env' = env
        /\ PublicKeyServed =>
               /\ lastExchange'.resp.status = 200
               /\ lastExchange'.resp.body.publicKey = publicKeyPEM
               /\ ivCounter' = ivCounter
               /\ envelopes' = envelopes ]_vars

\* The public key was served after an envelope had been sent.
C20_Witness ==
    /\ lastExchange.req.endpoint = "publicKey"
    /\ lastExchange.resp.status = 200
    /\ lastExchange.resp.body.publicKey = publicKeyPEM
    /\ served = 2
    /\ Len(envelopes) = 1

-----------------------------------------------------------------------------
(* Further properties of the client session (specification Spec).          *)

\* Call c was given the envelope the server sealed for call d.
SwappedDelivery(c, d) ==
    /\ d # c
    /\ Done(c)
    /\ calls[c].posts = 1
    /\ calls[d].response.status = 200
    /\ calls[c].delivered = calls[d].response

\* C21: a call that is delivered an envelope validly produced for the session
\* key of another call rejects it: decryption with its own key fails and the
\* call returns no data.
C21_SwappedEnvelopeRejected ==
    \A c, d \in CallIds :
        SwappedDelivery(c, d) =>
            /\ ~DeliveredDecryption(c).ok
            /\ calls[c].result = Null

\* A call was delivered the envelope of another call for the same resource,
\* an envelope that the other call's key opens.
C21_Witness ==
    \E c, d \in CallIds :
        /\ SwappedDelivery(c, d)
        /\ calls[c].volume = calls[d].volume
        /\ calls[c].unit = calls[d].unit
        /\ LoadResult(calls[c].delivered, calls[d].aesKey).kind = "data"

\* Call c ended because API.getPublicKey() gave it no key.
KeyFetchGaveNothing(c) ==
    Done(c) /\ calls[c].keyFetches = 1 /\ calls[c].posts = 0

\* C22: a call that ends because the public key could not be obtained leaves
\* the client uninitialized (its step changes neither cryptoInitialized nor
\* the stored key nor isInitialized, and while every call so far ended that
\* way nothing is cached); a call started while cryptoInitialized is false
\* fetches the key again; and a call whose fetch gave a key goes on to send
\* its POST.
C22_FailedKeyFetchLeavesClientUninitialized ==
    /\ [](\A c \in CallIds :
            /\ (\A d \in CallIds : calls[d].pc = "idle" \/ KeyFetchGaveNothing(d)) =>
                   (~cryptoInitialized /\ ~isInitialized /\ IsUndefined(publicKey))
            /\ (calls[c].keyFetches = 1 /\ calls[c].pc \in {"fetch", "done"}
                    /\ ~KeyFetchGaveNothing(c)) =>
                   (calls[c].posts = 1 /\ calls[c].wrappedWith = publicKey))
    /\ [][\A c \in CallIds :
            /\ (calls[c].pc = "getPublicKey" /\ calls'[c].pc = "done") =>
                   /\ calls'[c].result = Null
                   /\ cryptoInitialized' = cryptoInitialized
                   /\ isInitialized' = isInitialized
                   /\ publicKey' = publicKey
            /\ (calls[c].pc = "idle" /\ calls'[c].pc # "idle" /\ ~cryptoInitialized) =>
                   (calls'[c].pc = "getPublicKey" /\ calls'[c].keyFetches = 1)
       ]_vars

\* The first call ended without a key; the second fetched the key itself,
\* got it and returned its data.
C22_Witness ==
    /\ MaxCalls >= 2
    /\ KeyFetchGaveNothing(1)
    /\ calls[1].result = Null
    /\ ~calls[2].startedAfterInit
    /\ calls[2].keyFetches = 1
    /\ calls[2].posts = 1
    /\ Done(2)
    /\ calls[2].result.kind = "data"
    /\ cryptoInitialized

-----------------------------------------------------------------------------
(* Further properties of the server's answers (specification SpecServer).  *)

\* The key of req unwraps, but to a text that is not the hex form of 32 bytes.
UnwrapsToInvalidKey(req) ==
    /\ KeyUnwraps(req)
    /\ Len(BufferFromHex(NodeRsaDecrypt(rsaKey, req.encryptedAesKey).text))
           # AES_KEY_BYTES

\* C23: a wrapped key that RSA-decrypts but whose content is not a 256-bit
\* key is answered as an invalid wrapped key: 400 with an error object, and
\* no envelope.
C23_InvalidKeyContentIsBadRequest ==
    (IsSecureExchange /\ UnwrapsToInvalidKey(lastExchange.req)) =>
        /\ lastExchange.resp.status = 400
        /\ IsErrorBody(lastExchange.resp.body)

\* C24: in every configuration the server starts in, the key published on
\* GET /api/publicKey is the public half of the key rsaKey.decrypt uses, so a
\* session key wrapped with the published key unwraps.
C24_PublishedKeyIsOwnPublicHalf ==
    /\ publicKeyPEM = ExportPublicKey(rsaKey)
    /\ lastExchange.req.endpoint = "publicKey" =>
           lastExchange.resp.body.publicKey = ExportPublicKey(rsaKey)
    /\ (/\ IsSecureExchange
        /\ lastExchange.req.encryptedAesKey
               = JSEncryptEncrypt(publicKeyPEM, ZeroKeyHex)) =>
           NodeRsaDecrypt(rsaKey, lastExchange.req.encryptedAesKey).ok

\* C25: the two initialization flags of the client agree: whenever
\* dataLoader's cryptoInitialized is true, CryptoManager.isInitialized() is
\* true and its public key is set; so encryptAesKey never throws for a call:
\* a call that ended without sending its POST is one whose key fetch gave
\* nothing.
C25_InitializationFlagsConsistent ==
    /\ cryptoInitialized => (isInitialized /\ ~IsUndefined(publicKey))
    /\ \A c \in CallIds :
           (Done(c) /\ calls[c].posts = 0) => KeyFetchGaveNothing(c)

\* A call that found cryptoInitialized true skipped the key fetch, wrapped
\* its session key with the stored public key and sent its POST.
C25_Witness ==
    \E c \in CallIds :
        /\ cryptoInitialized
        /\ calls[c].keyFetches = 0
        /\ calls[c].posts = 1
        /\ calls[c].wrappedWith = publicKey
        /\ calls[c].encryptedAesKey.kind = "rsa"

\* The number of words in the envelope of the server's last answer, opened
\* with the session key the request carried.
WordsReturned ==
    Len(JsonParse(AnswerDecryption(
            NodeRsaDecrypt(rsaKey, lastExchange.req.encryptedAesKey).text).text).value)

\* The number of words in the resource the last request names.
WordsInResource ==
    Len(JsonParse(ReadFile(FileName(lastExchange.req.volume,
                                    lastExchange.req.unit)).data).value)

\* C26: the server validates in a fixed order and stops at the first failure.
\* On the count endpoint an invalid count is answered 400 'Invalid count
\* parameter' whatever the key is; on both endpoints a missing key or one that
\* does not unwrap is answered 400 naming the key, whether or not the resource
\* exists; a successful count request returns min(count, words) words.
C26_ValidationOrder ==
    IsSecureExchange =>
        LET req == lastExchange.req
            resp == lastExchange.resp
        IN  /\ CountInvalid(req) =>
                   resp = ErrorResponse(400, <<"Invalid count parameter">>)
            /\ (~CountInvalid(req) /\ MissingKey(req.encryptedAesKey)) =>
                   resp = ErrorResponse(400, <<"Missing encrypted AES key">>)
            /\ (~CountInvalid(req) /\ ~MissingKey(req.encryptedAesKey)
                    /\ ~KeyUnwraps(req)) =>
                   resp = ErrorResponse(400, <<"Invalid encrypted AES key">>)
            /\ (req.endpoint = "count" /\ resp.status = 200) =>
                   WordsReturned = IF ParseInt10(req.count).value < WordsInResource
                                   THEN ParseInt10(req.count).value
                                   ELSE WordsInResource

\* A count request with a valid count, a key that does not unwrap and a
\* resource that does not exist was answered 400.
C26_Witness ==
    /\ lastExchange.req.endpoint = "count"
    /\ ~CountInvalid(lastExchange.req)
    /\ ~MissingKey(lastExchange.req.encryptedAesKey)
    /\ ~KeyUnwraps(lastExchange.req)
    /\ ResourceMissing(lastExchange.req)
    /\ lastExchange.resp.status = 400

-----------------------------------------------------------------------------
(* Properties of the speech queue (specification SpecSpeech).              *)

\* C27: every item accepted by SpeechQueue.enqueue is eventually taken by
\* the consumer and its onEnd invoked, unless a stopSpeech gives it up
\* first; also an item enqueued after the queue has drained.
C27_AcceptedItemsAreSpoken ==
    \A i \in 1..MaxItems : (enqueued >= i) ~> (i \in ended \/ i \in dropped)

\* C28: the consumer handles one item at a time: while the engine speaks an
\* item, isProcessing and isSpeaking are set and the safety timeout stored
\* and pending is that item's; no callback of another item changes that.
C28_OneItemAtATime ==
    speaking # 0 =>
        /\ isProcessing
        /\ isSpeaking
        /\ processingTimeout = speaking
        /\ speaking \in timers

-----------------------------------------------------------------------------
(* Properties of the Sequencer (specification SpecSequencer).              *)

\* C29: the Sequencer runs its actions strictly one at a time and in the
\* order they were added, under every interleaving of add, addMany and
\* clear: at most one action is in progress, the actions were called in
\* increasing order, and a waiting action always has a running action before
\* it (also after an action threw).
C29_OneActionAtATimeInOrder ==
    /\ Cardinality(active) <= 1
    /\ \A i, j \in DOMAIN started : i < j => started[i] < started[j]
    /\ queue # <<>> => active # {}

-----------------------------------------------------------------------------
(* Properties of CryptoManager.init (specification SpecCryptoManager).     *)

\* C30: CryptoManager.init called with a key does not fetch, stores that key
\* and succeeds; called without a key it fetches once and stores the key
\* fetched; when it returns false the stored public key and the
\* isInitialized flag are what they were before the call.
C30_InitFrame ==
    inits > 0 =>
        /\ ~Falsy(lastInit.serverPublicKey) =>
               /\ lastInit.fetches = 0
               /\ lastInit.returned
               /\ publicKey = lastInit.serverPublicKey
               /\ isInitialized
        /\ Falsy(lastInit.serverPublicKey) =>
               /\ lastInit.fetches = 1
               /\ lastInit.returned =>
                      (publicKey = publicKeyPEM /\ isInitialized)
        /\ ~lastInit.returned =>
               /\ publicKey = lastInit.publicKeyBefore
               /\ isInitialized = lastInit.isInitializedBefore

\* An init without a key failed at its fetch after an earlier init had
\* stored a key.
C30_Witness ==
    /\ inits >= 2
    /\ Falsy(lastInit.serverPublicKey)
    /\ ~lastInit.returned
    /\ lastInit.fetches = 1
    /\ lastInit.isInitializedBefore
    /\ ~IsUndefined(lastInit.publicKeyBefore)
    /\ publicKey = lastInit.publicKeyBefore

====
